---- MODULE Spec2Model ----
(***************************************************************************)
(* Model of the raterunner reconciliation engine: the matcher              *)
(* (internal/stripe/fetch.go), the differ (internal/diff/diff.go), the     *)
(* sync engine (internal/stripe/sync.go) and the truncate engine, run      *)
(* against a model of the Stripe account they read and write.              *)
(*                                                                         *)
(* Names and ids are sequences of one-character strings, so that           *)
(* normalizeName is computed character by character.  Interval labels are  *)
(* plain strings: the code only compares them.                             *)
(***************************************************************************)
EXTENDS Integers, Sequences, FiniteSets, TLC

VARIABLES
    cfg,            \* the catalog (config.BillingConfig) the command was given
    env,            \* Client.env
    mode,           \* "apply" | "dry-run" | "truncate" | "match"
    remote,         \* the Stripe account: products, prices, coupons, promotion codes
    snapshot,       \* existingProducts: the result of FetchProductsWithPrices
    pc,             \* position of the running command
    i,              \* index of the plan / addon / promotion in its loop
    todo,           \* intervals of plan.Prices not yet visited (map iteration)
    cur,            \* the interval syncPriceAdvanced is working on
    k,              \* index in existingPrices of the archive loop / in a list of Truncate
    productID,      \* syncPlan / syncAddon: productID
    existingPrices, \* syncPlan: existingPrices
    result,         \* the SyncResult / TruncateResult being accumulated
    ret,            \* what the command returned: [result, err]
    diff,           \* the DiffResult of a dry run
    calls,          \* log of the remote calls of the current run, in order
    run,            \* number of the current run
    prev,           \* outcome of the previous run
    margs,          \* arguments of a MatchProduct call
    matched         \* its result: index into the product list, 0 for nil

vars == <<cfg, env, mode, remote, snapshot, pc, i, todo, cur, k, productID,
          existingPrices, result, ret, diff, calls, run, prev, margs, matched>>

---------------------------------------------------------------------------
(* Bounds of the model *)

MaxPlans == 2
MaxRemotePrices == 2
MaxPromos == 2
MaxRuns == 2
MaxMatchProducts == 2
MaxMatchInputs == 2
MaxTruncateProducts == 2
MaxTruncatePrices == 1
MaxEntries == 2

---------------------------------------------------------------------------
(* Strings *)

S_pro == <<"p", "r", "o">>
S_team == <<"t", "e", "a", "m">>
S_seats == <<"s", "e", "a", "t", "s">>
S_sso == <<"s", "s", "o">>
S_Pro == <<"P", "r", "o">>
S_ProPlan == <<"P", "r", "o", " ", "P", "l", "a", "n">>
S_pro_plan == <<"p", "r", "o", "_", "p", "l", "a", "n">>
S_proDashPlan == <<"p", "r", "o", "-", "p", "l", "a", "n">>
S_ProPlanPlan == <<"P", "r", "o", " ", "P", "l", "a", "n", " ", "P", "l", "a", "n">>
S_Team == <<"T", "e", "a", "m">>
S_Basic == <<"B", "a", "s", "i", "c">>
S_Seats == <<"S", "e", "a", "t", "s">>
S_SingleSignOn == <<"S", "S", "O", " ", "a", "d", "d", "-", "o", "n">>
S_LAUNCH == <<"L", "A", "U", "N", "C", "H">>
S_VIP == <<"V", "I", "P">>
S_y == <<"y">>
S_yes == <<"y", "e", "s">>
S_Y == <<"Y">>
S_Yes == <<"Y", "e", "s">>
S_n == <<"n">>
S_yy == <<"y", "y">>
S_y_no == <<"y", " ", "n", "o">>
S_sp_yes == <<" ", "y", "e", "s">>
S_sk_test_ == <<"s", "k", "_", "t", "e", "s", "t", "_">>
S_sk_live_ == <<"s", "k", "_", "l", "i", "v", "e", "_">>
S_sk_test_1 == S_sk_test_ \o <<"1">>
S_sk_live_1 == S_sk_live_ \o <<"1">>
NoString == << >>

\* strings.ToLower on one character
LowerChar(c) ==
    CASE c = "A" -> "a" [] c = "B" -> "b" [] c = "C" -> "c" [] c = "H" -> "h"
      [] c = "I" -> "i" [] c = "L" -> "l" [] c = "N" -> "n" [] c = "O" -> "o"
      [] c = "P" -> "p" [] c = "S" -> "s" [] c = "T" -> "t" [] c = "U" -> "u"
      [] c = "V" -> "v" [] c = "Y" -> "y" [] OTHER -> c

ToLower(s) == [n \in 1..Len(s) |-> LowerChar(s[n])]

\* strings.ReplaceAll for a one-character pattern and replacement
ReplaceAll(s, old, new) == [n \in 1..Len(s) |-> IF s[n] = old THEN new ELSE s[n]]

HasPrefix(s, prefix) ==
    /\ Len(s) >= Len(prefix)
    /\ SubSeq(s, 1, Len(prefix)) = prefix

RECURSIVE TrimLeft(_)
\* the string without its leading spaces
TrimLeft(s) == IF s # << >> /\ s[1] = " " THEN TrimLeft(Tail(s)) ELSE s

RECURSIVE TrimRight(_)
TrimRight(s) ==
    IF s # << >> /\ s[Len(s)] = " " THEN TrimRight(SubSeq(s, 1, Len(s) - 1)) ELSE s

\* strings.TrimSpace
TrimSpace(s) == TrimRight(TrimLeft(s))

RECURSIVE FirstWord(_)
\* the characters of s up to its first space
FirstWord(s) == IF s = << >> \/ s[1] = " " THEN << >> ELSE <<s[1]>> \o FirstWord(Tail(s))

\* fmt.Scanln(&response) on one line of input: leading spaces are passed over and
\* the operand gets the first word; what follows the word makes Scanln return an
\* error, which truncateAction does not look at, after the operand was stored
Scanln(line) == FirstWord(TrimLeft(line))

HasSuffix(s, suffix) ==
    /\ Len(s) >= Len(suffix)
    /\ SubSeq(s, Len(s) - Len(suffix) + 1, Len(s)) = suffix

\* strings.TrimSuffix: removes the suffix once
TrimSuffix(s, suffix) ==
    IF HasSuffix(s, suffix) THEN SubSeq(s, 1, Len(s) - Len(suffix)) ELSE s

\* normalizeName without the replacement of hyphens
normalizeName_KeepHyphen(name) ==
    TrimSuffix(ReplaceAll(ToLower(name), " ", "_"), <<"_", "p", "l", "a", "n">>)

normalizeName(name) ==
    TrimSuffix(ReplaceAll(ReplaceAll(ToLower(name), " ", "_"), "-", "_"),
               <<"_", "p", "l", "a", "n">>)

---------------------------------------------------------------------------
(* Helpers on sequences *)

SeqsUpTo(S, n) == UNION {[1..m -> S] : m \in 0..n}

Min(S) == CHOOSE x \in S : \A y \in S : x <= y

RECURSIVE SelectIdx(_, _, _)
\* the elements of s, in order, that satisfy Test
SelectIdx(s, Test(_), n) ==
    IF n > Len(s) THEN << >>
    ELSE (IF Test(s[n]) THEN <<s[n]>> ELSE << >>) \o SelectIdx(s, Test, n + 1)

Filter(s, Test(_)) == SelectIdx(s, Test, 1)

Count(s, Test(_)) == Cardinality({n \in DOMAIN s : Test(s[n])})

---------------------------------------------------------------------------
(* The matcher *)

\* MatchProduct with the two scans swapped: the name is tried before the code
MatchProduct_NameFirst(products, planID, planName) ==
    LET byCode == {n \in DOMAIN products :
                      products[n].Active /\ products[n].PlanCode = planID}
        byName == {n \in DOMAIN products :
                      products[n].Active
                      /\ normalizeName(products[n].Name) = normalizeName(planID)}
    IN  IF byName # {} THEN Min(byName)
        ELSE IF byCode # {} THEN Min(byCode)
        ELSE 0

\* MatchProduct returns &products[i]; the model returns the index i, 0 for nil.
MatchProduct(products, planID, planName) ==
    LET byCode == {n \in DOMAIN products :
                      products[n].Active /\ products[n].PlanCode = planID}
        normalizedPlanID == normalizeName(planID)
        byName == {n \in DOMAIN products :
                      products[n].Active
                      /\ normalizeName(products[n].Name) = normalizedPlanID}
    IN  IF byCode # {} THEN Min(byCode)
        ELSE IF byName # {} THEN Min(byName)
        ELSE 0

---------------------------------------------------------------------------
(* The catalog (package config) *)

NoTiers == << >>

FlatPrice(amount) == [Amount |-> amount, PerUnit |-> 0, Tiers |-> NoTiers, Mode |-> ""]

PerUnitPrice(perUnit) == [Amount |-> 0, PerUnit |-> perUnit, Tiers |-> NoTiers, Mode |-> ""]

TieredPrice(tiers, tiersMode) == [Amount |-> 0, PerUnit |-> 0, Tiers |-> tiers, Mode |-> tiersMode]

\* PriceTier.UpTo is an `any`: the dynamic type the YAML value has, and the value
\* (a float64 as a fraction)
NoUpTo == [type |-> "nil", num |-> 0, den |-> 1, text |-> ""]

IntUpTo(n) == [type |-> "int", num |-> n, den |-> 1, text |-> ""]

FloatUpTo(num, den) == [type |-> "float64", num |-> num, den |-> den, text |-> ""]

StringUpTo(text) == [type |-> "string", num |-> 0, den |-> 1, text |-> text]

PriceTier(upTo, amount, flat) == [UpTo |-> upTo, Amount |-> amount, Flat |-> flat]

\* int64(v) for a float64 v: the fraction is dropped, toward zero
Int64OfFloat(num, den) == IF num >= 0 THEN num \div den ELSE -((-num) \div den)

\* PriceTier.GetTierUpTo: -1 stands for unlimited, 0 for a value of any other kind
GetTierUpTo(t) ==
    IF t.UpTo.type = "int" THEN t.UpTo.num
    ELSE IF t.UpTo.type = "float64" THEN Int64OfFloat(t.UpTo.num, t.UpTo.den)
    ELSE IF t.UpTo.type = "string" /\ t.UpTo.text = "unlimited" THEN -1
    ELSE 0

\* a variant that takes a price without tiers for a flat price
PriceType_NoPerUnit(p) ==
    IF Len(p.Tiers) > 0 THEN "tiered" ELSE "flat"


PriceType(p) ==
    IF Len(p.Tiers) > 0 THEN "tiered"
    ELSE IF p.PerUnit > 0 THEN "per_unit"
    ELSE "flat"

\* a variant that never looks at the plan's own list
EffectiveProviders_GlobalOnly(plan, globalProviders) == globalProviders

EffectiveProviders(plan, globalProviders) ==
    IF Len(plan.Providers) > 0 THEN plan.Providers ELSE globalProviders

HasProvider(plan, provider, globalProviders) ==
    \E n \in DOMAIN EffectiveProviders(plan, globalProviders) :
        EffectiveProviders(plan, globalProviders)[n] = provider

\* a variant that takes every promotion for active
IsActive_Always(promo) == TRUE

\* Promotion.Active is a *bool: "nil", "true" or "false"
IsActive(promo) == IF promo.Active = "nil" THEN TRUE ELSE promo.Active = "true"

---------------------------------------------------------------------------
(* The Stripe account and the calls the client makes on it.  Lists come    *)
(* back newest first, as the Stripe list endpoints return them, so a       *)
(* created object is put at the head of its list.                          *)

NoRecurring == << >>

Recurring(interval, count) == <<[Interval |-> interval, IntervalCount |-> count]>>

EmptyAccount == [products |-> << >>, prices |-> << >>, coupons |-> {}, promoCodes |-> {}]

NextProductID(r) == Len(r.products) + 1

NextPriceID(r) == Len(r.prices) + 1

\* product.New
NewProduct(r, name, planCode) ==
    [r EXCEPT !.products =
        <<[ID |-> NextProductID(r), Name |-> name, PlanCode |-> planCode,
           Active |-> TRUE]>> \o @]

\* price.New
NewPrice(r, product, unitAmount, scheme, recurring, trialDays, tiers, tiersMode) ==
    [r EXCEPT !.prices =
        <<[ID |-> NextPriceID(r), Product |-> product, UnitAmount |-> unitAmount,
           Scheme |-> scheme, Recurring |-> recurring, TrialDays |-> trialDays,
           Tiers |-> tiers, TiersMode |-> tiersMode, Active |-> TRUE]>> \o @]

\* price.Update(id, Active: false)
DeactivatePrice(r, id) ==
    [r EXCEPT !.prices =
        [n \in DOMAIN @ |-> IF @[n].ID = id THEN [@[n] EXCEPT !.Active = FALSE] ELSE @[n]]]

\* product.Update(id, Active: false)
DeactivateProduct(r, id) ==
    [r EXCEPT !.products =
        [n \in DOMAIN @ |-> IF @[n].ID = id THEN [@[n] EXCEPT !.Active = FALSE] ELSE @[n]]]

\* coupon.New, promotioncode.New, coupon.Del
NewCoupon(r, id) == [r EXCEPT !.coupons = @ \cup {id}]

NewPromotionCode(r, code) == [r EXCEPT !.promoCodes = @ \cup {code}]

DelCoupon(r, id) == [r EXCEPT !.coupons = @ \ {id}]

IsActiveObject(o) == o.Active

\* an entry of the call log: the call, the entity (kind, index in its catalog list)
\* it was made for, the id of the remote object, the amount it carries and the
\* local interval it is about
Call(op, kind, idx, id, amount, interval) ==
    [op |-> op, out |-> "ok", kind |-> kind, idx |-> idx, id |-> id, amount |-> amount,
     interval |-> interval]

\* the call came back with an error
Failed(call) == [call EXCEPT !.out = "failed"]

\* the call came back with the error code resource_already_exists
AlreadyExists(call) == [call EXCEPT !.out = "exists"]

Mutations == {"product.New", "price.New", "price.Update", "product.Update",
              "coupon.New", "promotioncode.New", "coupon.Del"}

\* a variant that gives the interval unit of the remote price as its label
IntervalLabel_Unit(p) ==
    IF p.Recurring = NoRecurring THEN "" ELSE p.Recurring[1].Interval

\* the label FetchPricesForProduct gives a remote price
IntervalLabel(p) ==
    IF p.Recurring = NoRecurring THEN ""
    ELSE IF p.Recurring[1].Interval = "month" THEN "monthly"
    ELSE IF p.Recurring[1].Interval = "year" THEN "yearly"
    ELSE p.Recurring[1].Interval

FetchPricesForProduct(r, id) ==
    LET OfProduct(p) == p.Product = id
        mine == Filter(r.prices, OfProduct)
    IN  [n \in DOMAIN mine |->
            [ID |-> mine[n].ID, Interval |-> IntervalLabel(mine[n]),
             Amount |-> mine[n].UnitAmount, Active |-> mine[n].Active]]

\* product.List with the filter active=true
FetchProducts(r) ==
    LET listed == Filter(r.products, IsActiveObject)
    IN  [n \in DOMAIN listed |->
            [ID |-> listed[n].ID, Name |-> listed[n].Name,
             PlanCode |-> listed[n].PlanCode, Active |-> listed[n].Active,
             Prices |-> << >>]]

FetchProductsWithPrices(r) ==
    LET products == FetchProducts(r)
    IN  [n \in DOMAIN products |->
            [products[n] EXCEPT !.Prices = FetchPricesForProduct(r, products[n].ID)]]

\* the remote calls FetchProductsWithPrices makes, cut after the first `made` of them
FetchCalls(r, made) ==
    LET products == FetchProducts(r)
        all == <<Call("product.List", "fetch", 0, 0, 0, "")>>
               \o [n \in DOMAIN products |->
                      Call("price.List", "fetch", 0, products[n].ID, 0, "")]
    IN  SubSeq(all, 1, made)

---------------------------------------------------------------------------
(* The differ *)

\* findPrice returns &prices[i]; the model returns the index i, 0 for nil.
findPrice(prices, interval) ==
    LET found == {n \in DOMAIN prices : prices[n].Interval = interval /\ prices[n].Active}
    IN  IF found = {} THEN 0 ELSE Min(found)

\* PlanDiff.Prices and the differ details are built in map iteration order; the
\* model keeps them by interval.
comparePlan(plan, products) ==
    LET m == MatchProduct(products, plan.ID, plan.Name)
        priceDiff(interval) ==
            LET localPrice == plan.Prices[interval]
                n == findPrice(products[m].Prices, interval)
            IN  IF n = 0
                THEN [LocalAmount |-> localPrice.Amount, StripeAmount |-> 0,
                      Status |-> "MISSING"]
                ELSE [LocalAmount |-> localPrice.Amount,
                      StripeAmount |-> products[m].Prices[n].Amount,
                      Status |-> IF localPrice.Amount = products[m].Prices[n].Amount
                                 THEN "OK" ELSE "DIFFERS"]
        priceDiffs == [interval \in DOMAIN plan.Prices |-> priceDiff(interval)]
        differDetails == {interval \in DOMAIN plan.Prices : priceDiffs[interval].Status # "OK"}
    IN  IF m = 0
        THEN [PlanID |-> plan.ID, Status |-> "MISSING", Details |-> {"Not in Stripe"},
              Prices |-> << >>]
        ELSE [PlanID |-> plan.ID,
              Status |-> IF differDetails # {} THEN "DIFFERS" ELSE "OK",
              Details |-> differDetails, Prices |-> priceDiffs]

Compare(c, products) ==
    LET Targets(plan) == HasProvider(plan, "stripe", c.Providers)
        considered == Filter(c.Plans, Targets)
        plans == [n \in DOMAIN considered |-> comparePlan(considered[n], products)]
        Is(status) == Cardinality({n \in DOMAIN plans : plans[n].Status = status})
    IN  [Plans |-> plans,
         Summary |-> [Total |-> Len(plans), Synced |-> Is("OK"),
                      Missing |-> Is("MISSING"), Differs |-> Is("DIFFERS")]]

\* a variant that looks at the missing plans only
HasDifferences_MissingOnly(d) == d.Summary.Missing > 0

HasDifferences(d) == d.Summary.Missing > 0 \/ d.Summary.Differs > 0

---------------------------------------------------------------------------
(* Results, warnings and errors *)

ZeroSyncResult ==
    [ProductsCreated |-> 0, PricesCreated |-> 0, PricesArchived |-> 0,
     AddonsCreated |-> 0, CouponsCreated |-> 0, PromosCreated |-> 0,
     Warnings |-> << >>]

ZeroTruncateResult == [ProductsArchived |-> 0, PricesArchived |-> 0, CouponsDeleted |-> 0]

NoDiff == [Plans |-> << >>,
           Summary |-> [Total |-> 0, Synced |-> 0, Missing |-> 0, Differs |-> 0]]

\* a variant that loses the warning
Warn_Dropped(res, w) == res

\* a warning text, kept as its parts
Warning(kind, id, interval, local, stripe) ==
    [kind |-> kind, id |-> id, interval |-> interval, local |-> local, stripe |-> stripe]

Warn(res, w) == [res EXCEPT !.Warnings = Append(@, w)]

\* a variant whose wrapper does not name the entity
Error_NoID(kind, id, cause) == [kind |-> kind, id |-> << >>, cause |-> cause]

\* an error: the entity kind and id the wrapper names, and the cause
Error(kind, id, cause) == [kind |-> kind, id |-> id, cause |-> cause]

NoError == Error("nil", NoString, "")

NotReturned == [nilResult |-> TRUE, result |-> ZeroSyncResult, err |-> NoError]

Returned(res, err) == [nilResult |-> FALSE, result |-> res, err |-> err]

ReturnedNil(err) == [nilResult |-> TRUE, result |-> ZeroSyncResult, err |-> err]

\* applyAction, line 271: the code of cli.Exit("", 1)
ExitCoderStatus == 1

\* main, line 137: os.Exit(1)
ErrorStatus == 1

\* main, lines 135-138: the exit status of the process for the error an action
\* returns; an exit coder ends the process with its own code
ExitStatus(err) ==
    IF err = NoError THEN 0
    ELSE IF err.kind = "exit" THEN ExitCoderStatus
    ELSE ErrorStatus

---------------------------------------------------------------------------
(* The catalogs and accounts the commands are run on *)

Plan(id, name, prices) ==
    [ID |-> id, Name |-> name, Providers |-> << >>, TrialDays |-> 0, Prices |-> prices]

Addon(id, name, amount) == [ID |-> id, Name |-> name, Price |-> FlatPrice(amount)]

Promotion(code, active) == [Code |-> code, Active |-> active]

Catalog(plans, addons, promotions) ==
    [Providers |-> <<"stripe">>, Plans |-> plans, Addons |-> addons,
     Promotions |-> promotions]

Intervals == {"monthly", "yearly", "quarterly", "one_time", "week"}

\* the price maps with 1..n intervals out of ivs and prices out of shapes
PriceMaps(ivs, shapes, n) ==
    UNION {[S -> shapes] : S \in {T \in SUBSET ivs : Cardinality(T) \in 1..n}}

\* sequences of at most n elements of S whose Key values are pairwise distinct
DistinctSeqs(S, Key(_), n) ==
    {s \in SeqsUpTo(S, n) : \A a, b \in DOMAIN s : Key(s[a]) = Key(s[b]) => a = b}

RemoteProduct(id, name, planCode, active) ==
    [ID |-> id, Name |-> name, PlanCode |-> planCode, Active |-> active]

RemotePrice(id, product, amount, recurring, active) ==
    [ID |-> id, Product |-> product, UnitAmount |-> amount, Scheme |-> "per_unit",
     Recurring |-> recurring, TrialDays |-> 0, Tiers |-> NoTiers, TiersMode |-> "",
     Active |-> active]

ProductSpec(name, planCode, active, prices) ==
    [Name |-> name, PlanCode |-> planCode, Active |-> active, Prices |-> prices]

PriceSpec(amount, recurring, active) ==
    [amount |-> amount, recurring |-> recurring, active |-> active]

RECURSIVE BuildAccount(_, _, _)
\* the account that lists the first n products of specs, each with its prices
BuildAccount(specs, n, coupons) ==
    IF n = 0 THEN [EmptyAccount EXCEPT !.coupons = coupons, !.promoCodes = coupons]
    ELSE LET r == BuildAccount(specs, n - 1, coupons)
             ps == specs[n].Prices
         IN  [r EXCEPT
                !.products = Append(@, RemoteProduct(n, specs[n].Name, specs[n].PlanCode,
                                                     specs[n].Active)),
                !.prices = @ \o [m \in DOMAIN ps |->
                                    RemotePrice(Len(r.prices) + m, n, ps[m].amount,
                                                ps[m].recurring, ps[m].active)]]

Account(specs, coupons) == BuildAccount(specs, Len(specs), coupons)

Amounts == {1900, 2900}

Monthly2900 == [monthly |-> FlatPrice(2900)]

\* accounts that differ in the product a plan is matched to
MatchProducts ==
    {ProductSpec(name, code, active, <<PriceSpec(2900, Recurring("month", 1), TRUE)>>) :
        name \in {S_ProPlan, S_Basic}, code \in {S_pro, NoString}, active \in BOOLEAN}

MatchScenarios ==
    {[cfg |-> Catalog(<<Plan(S_pro, S_ProPlan, Monthly2900)>>, << >>, << >>),
      remote |-> Account(ps, {})] : ps \in SeqsUpTo(MatchProducts, MaxMatchProducts)}

\* accounts that differ in the prices of the matched product
RemotePrices ==
    {PriceSpec(amount, Recurring("month", 1), active) :
        amount \in Amounts, active \in BOOLEAN}
    \cup {PriceSpec(1900, Recurring("week", 1), TRUE)}

PriceScenarios ==
    {[cfg |-> Catalog(<<Plan(S_pro, S_ProPlan, prices)>>, << >>, << >>),
      remote |-> Account(<<ProductSpec(S_ProPlan, S_pro, TRUE, ps)>>, {})] :
        prices \in PriceMaps(Intervals, {FlatPrice(2900), PerUnitPrice(500)}, 1)
                   \cup PriceMaps(Intervals, {FlatPrice(2900)}, 2),
        ps \in SeqsUpTo(RemotePrices, MaxRemotePrices)}

\* catalogs with several plans, addons and promotions
SimplePlans ==
    {Plan(S_pro, S_ProPlan, Monthly2900), Plan(S_team, S_Team, Monthly2900),
     Plan(S_team, S_Team, [week |-> FlatPrice(2900)])}

Addons == {Addon(S_seats, S_Seats, 500), Addon(S_sso, S_SingleSignOn, 900)}

Promotions == {Promotion(S_LAUNCH, "nil"), Promotion(S_LAUNCH, "false"),
               Promotion(S_VIP, "true")}

PlanKey(plan) == plan.ID

PromotionKey(promo) == promo.Code

\* an account whose coupon VIP was deleted while its promotion code stayed, as
\* Truncate leaves it
OrphanCodeAccount ==
    [Account(<<ProductSpec(S_Pro, S_pro, TRUE,
                           <<PriceSpec(1900, Recurring("month", 1), TRUE)>>)>>, {})
        EXCEPT !.promoCodes = {S_VIP}]

OrderAccounts ==
    {EmptyAccount,
     Account(<< >>, {S_LAUNCH}),
     Account(<<ProductSpec(S_Seats, NoString, TRUE,
                           <<PriceSpec(500, NoRecurring, TRUE)>>)>>, {}),
     OrphanCodeAccount}

OrderScenarios ==
    {[cfg |-> Catalog(plans, addons, promotions), remote |-> r] :
        plans \in DistinctSeqs(SimplePlans, PlanKey, MaxPlans),
        addons \in SeqsUpTo(Addons, 1),
        promotions \in DistinctSeqs(Promotions, PromotionKey, MaxPromos),
        r \in OrderAccounts}

\* accounts for Truncate
TruncateProducts ==
    {ProductSpec(S_ProPlan, S_pro, active, ps) :
        active \in BOOLEAN,
        ps \in SeqsUpTo({PriceSpec(1900, Recurring("month", 1), a) : a \in BOOLEAN},
                        MaxTruncatePrices)}

TruncateAccounts ==
    {Account(ps, coupons) :
        ps \in SeqsUpTo(TruncateProducts, MaxTruncateProducts),
        coupons \in SUBSET {S_LAUNCH, S_VIP}}

\* arguments for MatchProduct
MatchInputs ==
    [Name : {S_ProPlan, S_Pro, S_proDashPlan, S_ProPlanPlan, S_Basic},
     PlanCode : {S_pro, NoString},
     Active : BOOLEAN]

MatchArgs ==
    {[products |-> [n \in DOMAIN ps |->
                       [ID |-> n, Name |-> ps[n].Name, PlanCode |-> ps[n].PlanCode,
                        Active |-> ps[n].Active, Prices |-> << >>]],
      planID |-> id, planName |-> name] :
        ps \in SeqsUpTo(MatchInputs, MaxMatchInputs),
        id \in {S_pro, S_pro_plan},
        name \in {S_ProPlan, S_Basic}}

\* a mapping of a parsed document, kept as its key set; present is FALSE where the
\* document has no mapping at that place
NoMapping == [present |-> FALSE, keys |-> {}]

Mapping(keys) == [present |-> TRUE, keys |-> keys]

\* the documents the pass is run on
OptionalMappings(keys) == {NoMapping} \cup {Mapping(ks) : ks \in SUBSET keys}

Documents ==
    [entitlements : {NoMapping, Mapping({}), Mapping({"a"}), Mapping({"c"})},
     plans : SeqsUpTo([limits : OptionalMappings({"a", "b"}) \ {Mapping({})}], MaxEntries),
     addons : SeqsUpTo([grants : {NoMapping, Mapping({"c"}), Mapping({"a", "c"})}],
                       MaxEntries)]

\* plans with a provider list of their own
WithProviders(plan, providers) == [plan EXCEPT !.Providers = providers]

ProviderLists == {<< >>, <<"stripe">>, <<"paddle">>, <<"paddle", "stripe">>}

ProviderPlans ==
    {WithProviders(plan, providers) :
        plan \in {Plan(S_pro, S_ProPlan, Monthly2900), Plan(S_team, S_Team, Monthly2900)},
        providers \in ProviderLists}

\* catalogs of the apply command, whose provider list validateProvider accepts,
\* with plans that target stripe and plans that do not
ProviderScenarios ==
    {[cfg |-> Catalog(plans, << >>, << >>), remote |-> r] :
        plans \in DistinctSeqs(ProviderPlans, PlanKey, MaxPlans),
        r \in {EmptyAccount,
               Account(<<ProductSpec(S_Pro, S_pro, TRUE,
                                     <<PriceSpec(1900, Recurring("month", 1), TRUE)>>)>>, {})}}

\* arguments for Compare: the catalog's own provider list varies as well
CompareArgs ==
    {[cfg |-> [sc.cfg EXCEPT !.Providers = providers], remote |-> sc.remote] :
        sc \in ProviderScenarios, providers \in ProviderLists}

\* accounts that differ in the prices of the product an addon is matched to
AddonPrices ==
    {PriceSpec(500, NoRecurring, TRUE), PriceSpec(500, NoRecurring, FALSE),
     PriceSpec(500, Recurring("month", 1), TRUE), PriceSpec(900, NoRecurring, TRUE)}

AddonScenarios ==
    {[cfg |-> Catalog(<< >>, addons, << >>),
      remote |-> Account(<<ProductSpec(S_Seats, NoString, TRUE, ps)>>, {})] :
        addons \in {<<Addon(S_seats, S_Seats, 500)>>,
                    <<Addon(S_sso, S_SingleSignOn, 900), Addon(S_seats, S_Seats, 500)>>},
        ps \in SeqsUpTo(AddonPrices, MaxRemotePrices)}

\* the command line and the environment of a command: --confirm, the line typed at
\* the prompt, the two credential variables, and the entitlement references of the
\* catalog file
NoDocument == [entitlements |-> NoMapping, plans |-> << >>, addons |-> << >>]

Keys == {NoString, S_sk_test_1, S_sk_live_1}

EnvFlags == {"sandbox", "production", "staging"}

Answers == {NoString, S_y, S_yes, S_Y, S_Yes, S_n, S_yy, S_y_no, S_sp_yes}

ApplyDocuments ==
    {[entitlements |-> Mapping({"a"}), plans |-> <<[limits |-> Mapping(ks)]>>,
      addons |-> << >>] : ks \in {{"a"}, {"a", "b"}}}

ApplyArgs ==
    [confirm : {FALSE}, answer : {NoString}, sandboxKey : Keys, productionKey : Keys,
     doc : ApplyDocuments]

TruncateArgs ==
    [confirm : BOOLEAN, answer : Answers, sandboxKey : Keys, productionKey : {NoString},
     doc : {NoDocument}]

CommandCatalogs ==
    {[Catalog(<<Plan(S_pro, S_ProPlan, Monthly2900)>>, << >>, << >>)
        EXCEPT !.Providers = providers] :
        providers \in ProviderLists \cup {<<"stripe", "acme">>}}

CommandAccount ==
    Account(<<ProductSpec(S_ProPlan, S_pro, TRUE,
                          <<PriceSpec(1900, Recurring("month", 1), TRUE)>>)>>, {S_LAUNCH})

\* two plans that resolve to one product: the first by its plan_code, the second by
\* its normalized name
SharedScenarios ==
    {[cfg |-> Catalog(<<Plan(S_pro, S_ProPlan, Monthly2900),
                        Plan(S_team, S_Team, [monthly |-> FlatPrice(amount)])>>,
                      << >>, << >>),
      remote |-> Account(<<ProductSpec(S_Team, S_pro, TRUE,
                             <<PriceSpec(1900, Recurring("month", 1), TRUE)>>)>>, {})] :
        amount \in Amounts}

\* tier lists: the example of the specification, a flat tier with a free tier, and
\* upper bounds of the other kinds a YAML value can have
TierLists ==
    {<<PriceTier(IntUpTo(10), 500, 0), PriceTier(StringUpTo("unlimited"), 300, 0)>>,
     <<PriceTier(IntUpTo(10), 0, 900), PriceTier(StringUpTo("unlimited"), 0, 0)>>,
     <<PriceTier(IntUpTo(-1), 500, 0)>>,
     <<PriceTier(FloatUpTo(21, 2), 500, 100), PriceTier(NoUpTo, 300, 0)>>,
     <<PriceTier(StringUpTo("100"), 500, 0)>>}

SpecTiers == <<PriceTier(IntUpTo(10), 500, 0), PriceTier(StringUpTo("unlimited"), 300, 0)>>

\* prices of the three shapes
ShapePrices ==
    {FlatPrice(2900), PerUnitPrice(500)}
    \cup {TieredPrice(tiers, "graduated") : tiers \in TierLists}
    \cup {TieredPrice(SpecTiers, tiersMode) : tiersMode \in {"", "volume"}}

ShapeIntervals == {"monthly", "quarterly", "yearly", "one_time", "", "week"}

TrialPeriods == {0, 14}

\* a plan with one price of any shape on any interval, with and without a trial, on
\* an empty account and on one whose product has a monthly and a weekly price
ShapeScenarios ==
    {[cfg |-> Catalog(<<[Plan(S_pro, S_ProPlan, prices) EXCEPT !.TrialDays = trial]>>,
                      << >>, << >>),
      remote |-> r] :
        prices \in PriceMaps(ShapeIntervals, ShapePrices, 1),
        trial \in TrialPeriods,
        r \in {EmptyAccount,
               Account(<<ProductSpec(S_ProPlan, S_pro, TRUE,
                           <<PriceSpec(500, Recurring("month", 1), TRUE),
                             PriceSpec(2900, Recurring("week", 1), TRUE)>>)>>, {})}}

Scenarios ==
    MatchScenarios \cup PriceScenarios \cup OrderScenarios \cup ProviderScenarios
    \cup AddonScenarios \cup SharedScenarios \cup ShapeScenarios

---------------------------------------------------------------------------
(* The apply command: Sync, or Compare on a dry run *)

NoArgs == [products |-> << >>, planID |-> NoString, planName |-> NoString]

\* nothing has run yet; the command is at the place at
IdleAt(at) ==
    /\ snapshot = << >> /\ i = 0 /\ todo = {} /\ cur = "" /\ k = 0
    /\ productID = 0 /\ existingPrices = << >>
    /\ result = ZeroSyncResult /\ ret = NotReturned /\ diff = NoDiff
    /\ calls = << >> /\ run = 1
    /\ prev = [mode |-> "none", ret |-> NotReturned, remote |-> EmptyAccount]
    /\ matched = 0
    /\ pc = at

Idle == IdleAt("start")

InitApply ==
    /\ \E sc \in Scenarios : cfg = sc.cfg /\ remote = sc.remote
    /\ env = "sandbox"
    /\ mode \in {"apply", "dry-run"}
    /\ margs = NoArgs
    /\ Idle

InitTruncate ==
    /\ cfg = Catalog(<< >>, << >>, << >>)
    /\ remote \in TruncateAccounts
    /\ env \in {"sandbox", "production"}
    /\ mode = "truncate"
    /\ margs = NoArgs
    /\ Idle

InitMatch ==
    /\ cfg = Catalog(<< >>, << >>, << >>)
    /\ remote = EmptyAccount
    /\ env = "sandbox"
    /\ mode = "match"
    /\ margs \in MatchArgs
    /\ Idle

InitCompare ==
    /\ \E sc \in CompareArgs : cfg = sc.cfg /\ remote = sc.remote
    /\ env = "sandbox"
    /\ mode = "compare"
    /\ margs = NoArgs
    /\ Idle

InitValidate ==
    /\ cfg = Catalog(<< >>, << >>, << >>)
    /\ remote = EmptyAccount
    /\ env = "sandbox"
    /\ mode = "validate"
    /\ margs \in Documents
    /\ Idle

\* the apply command from its command line on
InitApplyCommand ==
    /\ cfg \in CommandCatalogs
    /\ remote = EmptyAccount
    /\ env \in EnvFlags
    /\ mode \in {"apply", "dry-run"}
    /\ margs \in ApplyArgs
    /\ IdleAt("check")

\* the truncate command from its command line on; it has no --env flag
InitTruncateCommand ==
    /\ cfg = Catalog(<< >>, << >>, << >>)
    /\ remote = CommandAccount
    /\ env = "sandbox"
    /\ mode = "truncate"
    /\ margs \in TruncateArgs
    /\ IdleAt("confirm")

Init ==
    \/ InitApply \/ InitTruncate \/ InitMatch \/ InitCompare \/ InitValidate
    \/ InitApplyCommand \/ InitTruncateCommand

\* the run started at the command line
HasCommand == "confirm" \in DOMAIN margs

\* the state a command leaves behind when it returns
Return(r) ==
    /\ ret' = r
    /\ pc' = "done"

\* validateProvider: the first entry that is not stripe is refused; the test for a
\* list without stripe after the loop cannot fail for a list that passed the loop
validateProvider(providers) ==
    LET others == {n \in DOMAIN providers : providers[n] # "stripe"}
    IN  IF Len(providers) = 0 THEN Error("config", NoString, "no providers specified")
        ELSE IF others # {}
        THEN IF providers[Min(others)] \in {"paddle", "chargebee"}
             THEN Error("config", NoString, "provider is not supported yet")
             ELSE Error("config", NoString, "unknown provider")
        ELSE IF \A n \in DOMAIN providers : providers[n] # "stripe"
        THEN Error("config", NoString, "must include stripe")
        ELSE NoError

\* getAPIKey: the value of the variable of the environment, empty when unset
getAPIKey(e, args) ==
    CASE e = "sandbox" -> args.sandboxKey
      [] e = "production" -> args.productionKey
      [] OTHER -> NoString

\* a variant that accepts any key that is set
validateKey_AnyKey(e, apiKey) ==
    IF apiKey = NoString THEN Error("config", NoString, "API key is empty") ELSE NoError

\* validateKey
validateKey(e, apiKey) ==
    IF apiKey = NoString THEN Error("config", NoString, "API key is empty")
    ELSE IF e = "sandbox"
    THEN IF HasPrefix(apiKey, S_sk_test_) THEN NoError
         ELSE Error("config", NoString, "sandbox requires a test key")
    ELSE IF e = "production"
    THEN IF HasPrefix(apiKey, S_sk_live_) THEN NoError
         ELSE Error("config", NoString, "production requires a live key")
    ELSE Error("config", NoString, "unknown environment")

\* the environment of the client a command builds: truncate always asks for sandbox
ClientEnv == IF mode = "truncate" THEN "sandbox" ELSE env

\* applyAction, lines 219-240: the --env switch, then LoadBillingFile, which reads
\* and parses the file and calls no validator, then validateProvider
ApplyChecks ==
    /\ pc = "check" /\ mode \in {"apply", "dry-run"}
    /\ IF env \notin {"sandbox", "production"}
       THEN Return(ReturnedNil(Error("config", NoString, "invalid environment")))
       ELSE IF validateProvider(cfg.Providers) # NoError
       THEN Return(ReturnedNil(validateProvider(cfg.Providers)))
       ELSE pc' = "key" /\ UNCHANGED ret
    /\ UNCHANGED <<cfg, env, mode, remote, snapshot, i, todo, cur, k, productID,
                   existingPrices, result, diff, calls, run, prev, margs, matched>>

\* a variant that goes on without looking at the answer
TruncateConfirm_NoPrompt ==
    /\ pc = "confirm" /\ mode = "truncate"
    /\ pc' = "key"
    /\ UNCHANGED <<cfg, env, mode, remote, snapshot, i, todo, cur, k, productID,
                   existingPrices, result, ret, diff, calls, run, prev, margs, matched>>

\* truncateAction, lines 416-433: without --confirm the answer to the prompt is read,
\* trimmed and lowercased, and anything but y or yes ends the command with nil
TruncateConfirm ==
    /\ pc = "confirm" /\ mode = "truncate"
    /\ LET response == ToLower(TrimSpace(Scanln(margs.answer)))
       IN  IF ~margs.confirm /\ response # S_y /\ response # S_yes
           THEN Return(ReturnedNil(NoError))
           ELSE pc' = "key" /\ UNCHANGED ret
    /\ UNCHANGED <<cfg, env, mode, remote, snapshot, i, todo, cur, k, productID,
                   existingPrices, result, diff, calls, run, prev, margs, matched>>

\* applyAction, lines 242-251, and truncateAction, lines 435-445: the credential is
\* looked up and the client is built
CommandKey ==
    /\ pc = "key"
    /\ LET apiKey == getAPIKey(ClientEnv, margs)
       IN  IF apiKey = NoString
           THEN Return(ReturnedNil(Error("config", NoString, "variable is not set")))
           ELSE IF validateKey(ClientEnv, apiKey) # NoError
           THEN Return(ReturnedNil(validateKey(ClientEnv, apiKey)))
           ELSE pc' = "start" /\ UNCHANGED ret
    /\ UNCHANGED <<cfg, env, mode, remote, snapshot, i, todo, cur, k, productID,
                   existingPrices, result, diff, calls, run, prev, margs, matched>>

\* Sync, lines 28-34: the snapshot is fetched once; a failed list call ends Sync
SyncFetch ==
    /\ pc = "start" /\ mode = "apply"
    /\ result' = ZeroSyncResult
    /\ \/ /\ snapshot' = FetchProductsWithPrices(remote)
          /\ calls' = FetchCalls(remote, 1 + Len(FetchProducts(remote)))
          /\ pc' = "plan" /\ i' = 1
          /\ UNCHANGED ret
       \/ \E made \in 1..(1 + Len(FetchProducts(remote))) :
             /\ calls' = [FetchCalls(remote, made) EXCEPT ![made] = Failed(@)]
             /\ Return(ReturnedNil(Error("fetch", NoString, "list")))
             /\ UNCHANGED <<snapshot, i>>
    /\ UNCHANGED <<cfg, env, mode, remote, todo, cur, k, productID, existingPrices,
                   diff, run, prev, margs, matched>>

\* an apply that does not look at its dry-run flag
DryRun_Applies ==
    /\ pc = "start" /\ mode = "dry-run"
    /\ result' = ZeroSyncResult
    /\ snapshot' = FetchProductsWithPrices(remote)
    /\ calls' = FetchCalls(remote, 1 + Len(FetchProducts(remote)))
    /\ pc' = "plan" /\ i' = 1
    /\ UNCHANGED <<cfg, env, mode, remote, todo, cur, k, productID, existingPrices,
                   ret, diff, run, prev, margs, matched>>

\* applyAction, lines 253-274: the dry run fetches and compares
DryRun ==
    /\ pc = "start" /\ mode = "dry-run"
    /\ \/ /\ snapshot' = FetchProductsWithPrices(remote)
          /\ calls' = FetchCalls(remote, 1 + Len(FetchProducts(remote)))
          /\ diff' = Compare(cfg, snapshot')
          /\ Return(Returned(ZeroSyncResult,
                             IF HasDifferences(diff') THEN Error("exit", NoString, "1")
                             ELSE NoError))
       \/ \E made \in 1..(1 + Len(FetchProducts(remote))) :
             /\ calls' = [FetchCalls(remote, made) EXCEPT ![made] = Failed(@)]
             /\ Return(ReturnedNil(Error("fetch", NoString, "list")))
             /\ UNCHANGED <<snapshot, diff>>
    /\ UNCHANGED <<cfg, env, mode, remote, i, todo, cur, k, productID, existingPrices,
                   result, run, prev, margs, matched>>

\* a variant that brings the display name of the matched product in line
SyncPlan_Renames ==
    /\ pc = "plan" /\ i <= Len(cfg.Plans)
    /\ LET plan == cfg.Plans[i]
           m == MatchProduct(snapshot, plan.ID, plan.Name)
           create == Call("product.New", "plan", i, NextProductID(remote), 0, "")
       IN  /\ matched' = m
           /\ IF m # 0
              THEN /\ productID' = snapshot[m].ID
                   /\ existingPrices' = snapshot[m].Prices
                   /\ IF snapshot[m].Name # plan.Name
                      THEN /\ remote' =
                                [remote EXCEPT !.products =
                                    [q \in DOMAIN @ |->
                                        IF @[q].ID = snapshot[m].ID
                                        THEN [@[q] EXCEPT !.Name = plan.Name]
                                        ELSE @[q]]]
                           /\ calls' = Append(calls, Call("product.Update", "plan", i,
                                                          snapshot[m].ID, 0, ""))
                      ELSE UNCHANGED <<remote, calls>>
                   /\ todo' = DOMAIN plan.Prices
                   /\ pc' = "price"
                   /\ UNCHANGED <<result, ret>>
              ELSE \/ /\ remote' = NewProduct(remote, plan.Name, plan.ID)
                      /\ calls' = Append(calls, create)
                      /\ productID' = NextProductID(remote)
                      /\ existingPrices' = << >>
                      /\ result' = [result EXCEPT !.ProductsCreated = @ + 1]
                      /\ todo' = DOMAIN plan.Prices
                      /\ pc' = "price"
                      /\ UNCHANGED ret
                   \/ /\ calls' = Append(calls, Failed(create))
                      /\ Return(Returned(result, Error("plan", plan.ID, "create product")))
                      /\ UNCHANGED <<remote, productID, existingPrices, result, todo>>
    /\ UNCHANGED <<cfg, env, mode, snapshot, i, cur, k, diff, run, prev, margs>>

\* Sync, lines 37-41, and syncPlan, lines 61-123
SyncPlan ==
    /\ pc = "plan" /\ i <= Len(cfg.Plans)
    /\ LET plan == cfg.Plans[i]
           m == MatchProduct(snapshot, plan.ID, plan.Name)
           create == Call("product.New", "plan", i, NextProductID(remote), 0, "")
       IN  /\ matched' = m
           /\ IF m # 0
              THEN /\ productID' = snapshot[m].ID
                   /\ existingPrices' = snapshot[m].Prices
                   /\ result' = IF snapshot[m].Name # plan.Name
                                THEN Warn(result, Warning("name differs", plan.ID, "", 0, 0))
                                ELSE result
                   /\ todo' = DOMAIN plan.Prices
                   /\ pc' = "price"
                   /\ UNCHANGED <<remote, calls, ret>>
              ELSE \/ /\ remote' = NewProduct(remote, plan.Name, plan.ID)
                      /\ calls' = Append(calls, create)
                      /\ productID' = NextProductID(remote)
                      /\ existingPrices' = << >>
                      /\ result' = [result EXCEPT !.ProductsCreated = @ + 1]
                      /\ todo' = DOMAIN plan.Prices
                      /\ pc' = "price"
                      /\ UNCHANGED ret
                   \/ /\ calls' = Append(calls, Failed(create))
                      /\ Return(Returned(result, Error("plan", plan.ID, "create product")))
                      /\ UNCHANGED <<remote, productID, existingPrices, result, todo>>
    /\ UNCHANGED <<cfg, env, mode, snapshot, i, cur, k, diff, run, prev, margs>>

\* a variant that lists the account again after each plan
PlanPricesDone_Refetch ==
    /\ pc = "price" /\ todo = {}
    /\ pc' = "plan" /\ i' = i + 1
    /\ snapshot' = FetchProductsWithPrices(remote)
    /\ calls' = calls \o FetchCalls(remote, 1 + Len(FetchProducts(remote)))
    /\ UNCHANGED <<cfg, env, mode, remote, todo, cur, k, productID,
                   existingPrices, result, ret, diff, run, prev, margs, matched>>

\* syncPlan, lines 126-132: the next interval of the map, in any order
PlanPricesDone ==
    /\ pc = "price" /\ todo = {}
    /\ pc' = "plan" /\ i' = i + 1
    /\ UNCHANGED <<cfg, env, mode, remote, snapshot, todo, cur, k, productID,
                   existingPrices, result, ret, diff, calls, run, prev, margs, matched>>

\* a variant that takes an archived price for the exact price
IsExact_Archived(p, interval, localPrice) ==
    p.Interval = interval /\ p.Amount = localPrice.Amount

IsExact(p, interval, localPrice) ==
    p.Interval = interval /\ p.Amount = localPrice.Amount /\ p.Active

\* a variant that takes the active prices of every interval for conflicts
IsConflict_AnyInterval(p, interval, localPrice) ==
    p.Active /\ p.Amount # localPrice.Amount

IsConflict(p, interval, localPrice) ==
    p.Interval = interval /\ p.Active /\ p.Amount # localPrice.Amount

\* syncPriceAdvanced, lines 137-146
SyncPrice ==
    /\ pc = "price" /\ todo # {}
    /\ \E interval \in todo :
          LET localPrice == cfg.Plans[i].Prices[interval]
          IN  /\ todo' = todo \ {interval}
              /\ cur' = interval
              /\ IF PriceType(localPrice) = "flat"
                 THEN IF \E n \in DOMAIN existingPrices :
                            IsExact(existingPrices[n], interval, localPrice)
                      THEN pc' = "price" /\ k' = k
                      ELSE pc' = "archive" /\ k' = 1
                 ELSE pc' = "create" /\ k' = k
    /\ UNCHANGED <<cfg, env, mode, remote, snapshot, i, productID, existingPrices,
                   result, ret, diff, calls, run, prev, margs, matched>>

\* syncPriceAdvanced, lines 148-162: one round of the archive loop
ArchiveConflict ==
    /\ pc = "archive"
    /\ LET plan == cfg.Plans[i]
           localPrice == plan.Prices[cur]
       IN  IF k > Len(existingPrices)
           THEN /\ pc' = "create"
                /\ UNCHANGED <<remote, k, result, ret, calls>>
           ELSE IF ~IsConflict(existingPrices[k], cur, localPrice)
           THEN /\ k' = k + 1
                /\ UNCHANGED <<remote, pc, result, ret, calls>>
           ELSE LET p == existingPrices[k]
                    warned == Warn(result, Warning("price differs", plan.ID, cur,
                                                   localPrice.Amount, p.Amount))
                    update == Call("price.Update", "plan", i, p.ID, p.Amount, cur)
                IN  \/ /\ remote' = DeactivatePrice(remote, p.ID)
                       /\ calls' = Append(calls, update)
                       /\ result' = [warned EXCEPT !.PricesArchived = @ + 1]
                       /\ k' = k + 1
                       /\ UNCHANGED <<pc, ret>>
                    \/ /\ calls' = Append(calls, Failed(update))
                       /\ result' = warned
                       /\ Return(Returned(warned, Error("plan", plan.ID, "archive price")))
                       /\ UNCHANGED <<remote, k>>
    /\ UNCHANGED <<cfg, env, mode, snapshot, i, todo, cur, productID, existingPrices,
                   diff, run, prev, margs, matched>>

\* the unit amount of the price params, lines 172-211
UnitAmountOf(localPrice) ==
    IF PriceType(localPrice) = "flat" THEN localPrice.Amount
    ELSE IF PriceType(localPrice) = "per_unit" THEN localPrice.PerUnit
    ELSE 0

SchemeOf(localPrice) == IF PriceType(localPrice) = "tiered" THEN "tiered" ELSE "per_unit"

TiersModeOf(localPrice) ==
    IF PriceType(localPrice) # "tiered" THEN ""
    ELSE IF localPrice.Mode = "volume" THEN "volume" ELSE "graduated"

\* a field of the price params that is left nil, and one that is set
Unset == << >>

Int64(n) == <<n>>

\* lines 193-209: the params of one tier
TierParam(tier) ==
    LET upTo == GetTierUpTo(tier)
    IN  [UpToInf |-> upTo = -1,
         UpTo |-> IF upTo = -1 THEN Unset ELSE Int64(upTo),
         FlatAmount |-> IF tier.Flat > 0 THEN Int64(tier.Flat) ELSE Unset,
         UnitAmount |-> IF tier.Flat > 0 THEN Unset ELSE Int64(tier.Amount)]

\* lines 181-211: the tiers of the price params
TiersOf(localPrice) ==
    IF PriceType(localPrice) = "tiered"
    THEN [n \in DOMAIN localPrice.Tiers |-> TierParam(localPrice.Tiers[n])]
    ELSE NoTiers

SupportedIntervals == {"", "one_time", "monthly", "quarterly", "yearly"}

\* a variant that bills every recurring price month by month
RecurringOf_Monthly(interval) ==
    IF interval \in {"monthly", "quarterly", "yearly"} THEN Recurring("month", 1)
    ELSE NoRecurring

\* the recurring params, lines 214-241
RecurringOf(interval) ==
    IF interval = "monthly" THEN Recurring("month", 1)
    ELSE IF interval = "quarterly" THEN Recurring("month", 3)
    ELSE IF interval = "yearly" THEN Recurring("year", 1)
    ELSE NoRecurring

TrialDaysOf(interval, trialDays) ==
    IF RecurringOf(interval) # NoRecurring /\ trialDays > 0 THEN trialDays ELSE 0

\* syncPriceAdvanced, lines 165-249
CreatePrice ==
    /\ pc = "create"
    /\ LET plan == cfg.Plans[i]
           localPrice == plan.Prices[cur]
           create == Call("price.New", "plan", i, NextPriceID(remote),
                          UnitAmountOf(localPrice), cur)
       IN  IF cur \notin SupportedIntervals
           THEN /\ Return(Returned(result, Error("plan", plan.ID, "unsupported interval")))
                /\ UNCHANGED <<remote, result, calls>>
           ELSE \/ /\ remote' = NewPrice(remote, productID, UnitAmountOf(localPrice),
                                         SchemeOf(localPrice), RecurringOf(cur),
                                         TrialDaysOf(cur, plan.TrialDays),
                                         TiersOf(localPrice), TiersModeOf(localPrice))
                   /\ calls' = Append(calls, create)
                   /\ result' = [result EXCEPT !.PricesCreated = @ + 1]
                   /\ pc' = "price"
                   /\ UNCHANGED ret
                \/ /\ calls' = Append(calls, Failed(create))
                   /\ Return(Returned(result, Error("plan", plan.ID, "create price")))
                   /\ UNCHANGED <<remote, result>>
    /\ UNCHANGED <<cfg, env, mode, snapshot, i, todo, cur, k, productID, existingPrices,
                   diff, run, prev, margs, matched>>

\* Sync, lines 43-48: the plans are done, the addons follow
PlansDone ==
    /\ pc = "plan" /\ i > Len(cfg.Plans)
    /\ pc' = "addon" /\ i' = 1
    /\ UNCHANGED <<cfg, env, mode, remote, snapshot, todo, cur, k, productID,
                   existingPrices, result, ret, diff, calls, run, prev, margs, matched>>

\* a variant that creates a price without looking at the prices of the match
SyncAddon_NoPriceCheck ==
    /\ pc = "addon" /\ i <= Len(cfg.Addons)
    /\ LET addon == cfg.Addons[i]
           m == MatchProduct(snapshot, addon.ID, addon.Name)
           create == Call("product.New", "addon", i, NextProductID(remote), 0, "")
       IN  /\ matched' = m
           /\ IF m # 0
              THEN /\ productID' = snapshot[m].ID
                   /\ pc' = "addonPrice" /\ i' = i
                   /\ UNCHANGED <<remote, calls, result, ret>>
              ELSE \/ /\ remote' = NewProduct(remote, addon.Name, NoString)
                      /\ calls' = Append(calls, create)
                      /\ productID' = NextProductID(remote)
                      /\ result' = [result EXCEPT !.AddonsCreated = @ + 1]
                      /\ pc' = "addonPrice"
                      /\ UNCHANGED <<i, ret>>
                   \/ /\ calls' = Append(calls, Failed(create))
                      /\ Return(Returned(result, Error("addon", addon.ID, "create product")))
                      /\ UNCHANGED <<remote, productID, result, i>>
    /\ UNCHANGED <<cfg, env, mode, snapshot, todo, cur, k, existingPrices, diff, run,
                   prev, margs>>

\* syncAddon, lines 252-282
SyncAddon ==
    /\ pc = "addon" /\ i <= Len(cfg.Addons)
    /\ LET addon == cfg.Addons[i]
           m == MatchProduct(snapshot, addon.ID, addon.Name)
           create == Call("product.New", "addon", i, NextProductID(remote), 0, "")
       IN  /\ matched' = m
           /\ IF m # 0
              THEN /\ productID' = snapshot[m].ID
                   /\ IF \E n \in DOMAIN snapshot[m].Prices :
                            IsExact(snapshot[m].Prices[n], "", addon.Price)
                      THEN pc' = "addon" /\ i' = i + 1
                      ELSE pc' = "addonPrice" /\ i' = i
                   /\ UNCHANGED <<remote, calls, result, ret>>
              ELSE \/ /\ remote' = NewProduct(remote, addon.Name, NoString)
                      /\ calls' = Append(calls, create)
                      /\ productID' = NextProductID(remote)
                      /\ result' = [result EXCEPT !.AddonsCreated = @ + 1]
                      /\ pc' = "addonPrice"
                      /\ UNCHANGED <<i, ret>>
                   \/ /\ calls' = Append(calls, Failed(create))
                      /\ Return(Returned(result, Error("addon", addon.ID, "create product")))
                      /\ UNCHANGED <<remote, productID, result, i>>
    /\ UNCHANGED <<cfg, env, mode, snapshot, todo, cur, k, existingPrices, diff, run,
                   prev, margs>>

\* a variant that counts the price before the call is made
AddonPrice_CountsAttempt ==
    /\ pc = "addonPrice"
    /\ LET addon == cfg.Addons[i]
           create == Call("price.New", "addon", i, NextPriceID(remote), addon.Price.Amount,
                          "")
           counted == [result EXCEPT !.PricesCreated = @ + 1]
       IN  \/ /\ remote' = NewPrice(remote, productID, addon.Price.Amount, "per_unit",
                                    NoRecurring, 0, NoTiers, "")
              /\ calls' = Append(calls, create)
              /\ result' = counted
              /\ pc' = "addon" /\ i' = i + 1
              /\ UNCHANGED ret
           \/ /\ calls' = Append(calls, Failed(create))
              /\ result' = counted
              /\ Return(Returned(counted, Error("addon", addon.ID, "create price")))
              /\ UNCHANGED <<remote, i>>
    /\ UNCHANGED <<cfg, env, mode, snapshot, todo, cur, k, productID, existingPrices,
                   diff, run, prev, margs, matched>>

\* syncAddon, lines 284-297
AddonPrice ==
    /\ pc = "addonPrice"
    /\ LET addon == cfg.Addons[i]
           create == Call("price.New", "addon", i, NextPriceID(remote), addon.Price.Amount,
                          "")
       IN  \/ /\ remote' = NewPrice(remote, productID, addon.Price.Amount, "per_unit",
                                    NoRecurring, 0, NoTiers, "")
              /\ calls' = Append(calls, create)
              /\ result' = [result EXCEPT !.PricesCreated = @ + 1]
              /\ pc' = "addon" /\ i' = i + 1
              /\ UNCHANGED ret
           \/ /\ calls' = Append(calls, Failed(create))
              /\ Return(Returned(result, Error("addon", addon.ID, "create price")))
              /\ UNCHANGED <<remote, result, i>>
    /\ UNCHANGED <<cfg, env, mode, snapshot, todo, cur, k, productID, existingPrices,
                   diff, run, prev, margs, matched>>

\* Sync, lines 50-55: the addons are done, the promotions follow
AddonsDone ==
    /\ pc = "addon" /\ i > Len(cfg.Addons)
    /\ pc' = "promo" /\ i' = 1
    /\ UNCHANGED <<cfg, env, mode, remote, snapshot, todo, cur, k, productID,
                   existingPrices, result, ret, diff, calls, run, prev, margs, matched>>

\* a variant that turns the rejection of an existing coupon into an error
SyncPromotion_Escalates ==
    /\ pc = "promo" /\ i <= Len(cfg.Promotions)
    /\ LET promo == cfg.Promotions[i]
           create == Call("coupon.New", "promotion", i, 0, 0, "")
       IN  IF ~IsActive(promo)
           THEN /\ i' = i + 1
                /\ UNCHANGED <<remote, pc, result, ret, calls>>
           ELSE \/ /\ promo.Code \notin remote.coupons
                   /\ remote' = NewCoupon(remote, promo.Code)
                   /\ calls' = Append(calls, create)
                   /\ result' = [result EXCEPT !.CouponsCreated = @ + 1]
                   /\ pc' = "promoCode"
                   /\ UNCHANGED <<i, ret>>
                \/ /\ promo.Code \in remote.coupons
                   /\ calls' = Append(calls, AlreadyExists(create))
                   /\ Return(Returned(result, Error("promotion", promo.Code, "create coupon")))
                   /\ UNCHANGED <<remote, result, i>>
                \/ /\ calls' = Append(calls, Failed(create))
                   /\ Return(Returned(result, Error("promotion", promo.Code, "create coupon")))
                   /\ UNCHANGED <<remote, result, i>>
    /\ UNCHANGED <<cfg, env, mode, snapshot, todo, cur, k, productID, existingPrices,
                   diff, run, prev, margs, matched>>

\* syncPromotion, lines 300-345: the coupon.  Stripe rejects a coupon whose id is taken.
SyncPromotion ==
    /\ pc = "promo" /\ i <= Len(cfg.Promotions)
    /\ LET promo == cfg.Promotions[i]
           create == Call("coupon.New", "promotion", i, 0, 0, "")
       IN  IF ~IsActive(promo)
           THEN /\ i' = i + 1
                /\ UNCHANGED <<remote, pc, result, ret, calls>>
           ELSE \/ /\ promo.Code \notin remote.coupons
                   /\ remote' = NewCoupon(remote, promo.Code)
                   /\ calls' = Append(calls, create)
                   /\ result' = [result EXCEPT !.CouponsCreated = @ + 1]
                   /\ pc' = "promoCode"
                   /\ UNCHANGED <<i, ret>>
                \/ /\ promo.Code \in remote.coupons
                   /\ calls' = Append(calls, AlreadyExists(create))
                   /\ result' = Warn(result, Warning("coupon exists", promo.Code, "", 0, 0))
                   /\ i' = i + 1
                   /\ UNCHANGED <<remote, pc, ret>>
                \/ /\ calls' = Append(calls, Failed(create))
                   /\ Return(Returned(result, Error("promotion", promo.Code, "create coupon")))
                   /\ UNCHANGED <<remote, result, i>>
    /\ UNCHANGED <<cfg, env, mode, snapshot, todo, cur, k, productID, existingPrices,
                   diff, run, prev, margs, matched>>

\* syncPromotion, lines 347-371: the promotion code
PromotionCode ==
    /\ pc = "promoCode"
    /\ LET promo == cfg.Promotions[i]
           create == Call("promotioncode.New", "promotion", i, 0, 0, "")
       IN  \/ /\ promo.Code \notin remote.promoCodes
              /\ remote' = NewPromotionCode(remote, promo.Code)
              /\ calls' = Append(calls, create)
              /\ result' = [result EXCEPT !.PromosCreated = @ + 1]
              /\ pc' = "promo" /\ i' = i + 1
              /\ UNCHANGED ret
           \/ /\ promo.Code \in remote.promoCodes
              /\ calls' = Append(calls, AlreadyExists(create))
              /\ result' = Warn(result, Warning("promotion code exists", promo.Code, "", 0, 0))
              /\ pc' = "promo" /\ i' = i + 1
              /\ UNCHANGED <<remote, ret>>
           \/ /\ calls' = Append(calls, Failed(create))
              /\ Return(Returned(result, Error("promotion", promo.Code, "create promotion code")))
              /\ UNCHANGED <<remote, result, i>>
    /\ UNCHANGED <<cfg, env, mode, snapshot, todo, cur, k, productID, existingPrices,
                   diff, run, prev, margs, matched>>

\* Sync, line 57
SyncReturn ==
    /\ pc = "promo" /\ i > Len(cfg.Promotions)
    /\ Return(Returned(result, NoError))
    /\ UNCHANGED <<cfg, env, mode, remote, snapshot, i, todo, cur, k, productID,
                   existingPrices, result, diff, calls, run, prev, margs, matched>>

\* the operator runs apply again, or a dry run, on the same catalog; nobody else
\* changes the account in between
Again ==
    /\ pc = "done" /\ mode = "apply" /\ run < MaxRuns
    /\ run' = run + 1
    /\ prev' = [mode |-> mode, ret |-> ret, remote |-> remote]
    /\ mode' \in {"apply", "dry-run"}
    /\ pc' = IF HasCommand THEN "check" ELSE "start"
    /\ snapshot' = << >> /\ i' = 0 /\ todo' = {} /\ cur' = "" /\ k' = 0
    /\ productID' = 0 /\ existingPrices' = << >> /\ matched' = 0
    /\ result' = ZeroSyncResult /\ ret' = NotReturned /\ diff' = NoDiff
    /\ calls' = << >>
    /\ UNCHANGED <<cfg, env, remote, margs>>

---------------------------------------------------------------------------
(* The truncate command.  Truncate walks three lists; the model keeps the  *)
(* ids of the list being walked in snapshot and the coupons in todo.       *)

\* a list that gives the first active object only
ActiveIDs_FirstOnly(objects) ==
    LET listed == Filter(objects, IsActiveObject)
    IN  [n \in DOMAIN listed \cap {1} |-> listed[n].ID]

ActiveIDs(objects) ==
    LET listed == Filter(objects, IsActiveObject)
    IN  [n \in DOMAIN listed |-> listed[n].ID]

\* Truncate without its guard
AllowsTruncate_Any(e) == TRUE

\* Truncate, lines 22-24: the environment Truncate accepts
AllowsTruncate(e) == e = "sandbox"

\* Truncate, lines 22-33: the guard, then the list of the active prices
TruncateStart ==
    /\ pc = "start" /\ mode = "truncate"
    /\ LET list == Call("price.List", "truncate", 0, 0, 0, "")
       IN  IF ~AllowsTruncate(env)
           THEN /\ Return(ReturnedNil(Error("truncate", NoString, "not sandbox")))
                /\ UNCHANGED <<snapshot, k, result, calls>>
           ELSE \/ /\ result' = ZeroTruncateResult
                   /\ snapshot' = ActiveIDs(remote.prices)
                   /\ calls' = Append(calls, list)
                   /\ k' = 1
                   /\ pc' = "tprices"
                   /\ UNCHANGED ret
                \/ /\ result' = ZeroTruncateResult
                   /\ calls' = Append(calls, Failed(list))
                   /\ Return(Returned(ZeroTruncateResult,
                                      Error("truncate", NoString, "list prices")))
                   /\ UNCHANGED <<snapshot, k>>
    /\ UNCHANGED <<cfg, env, mode, remote, i, todo, cur, productID, existingPrices,
                   diff, run, prev, margs, matched>>

\* TruncatePrice that goes on with the next price when the update fails
TruncatePrice_Continue ==
    /\ pc = "tprices" /\ k <= Len(snapshot)
    /\ LET update == Call("price.Update", "truncate", 0, snapshot[k], 0, "")
       IN  \/ /\ remote' = DeactivatePrice(remote, snapshot[k])
              /\ calls' = Append(calls, update)
              /\ result' = [result EXCEPT !.PricesArchived = @ + 1]
           \/ /\ calls' = Append(calls, Failed(update))
              /\ UNCHANGED <<remote, result>>
    /\ k' = k + 1
    /\ UNCHANGED <<cfg, env, mode, snapshot, pc, ret, i, todo, cur, productID,
                   existingPrices, diff, run, prev, margs, matched>>

\* Truncate, lines 34-43: one price of the list
TruncatePrice ==
    /\ pc = "tprices" /\ k <= Len(snapshot)
    /\ LET update == Call("price.Update", "truncate", 0, snapshot[k], 0, "")
       IN  \/ /\ remote' = DeactivatePrice(remote, snapshot[k])
              /\ calls' = Append(calls, update)
              /\ result' = [result EXCEPT !.PricesArchived = @ + 1]
              /\ k' = k + 1
              /\ UNCHANGED <<pc, ret>>
           \/ /\ calls' = Append(calls, Failed(update))
              /\ Return(Returned(result, Error("truncate", NoString, "archive price")))
              /\ UNCHANGED <<remote, result, k>>
    /\ UNCHANGED <<cfg, env, mode, snapshot, i, todo, cur, productID, existingPrices,
                   diff, run, prev, margs, matched>>

\* Truncate, lines 44-53: the prices are done, the active products are listed
TruncateListProducts ==
    /\ pc = "tprices" /\ k > Len(snapshot)
    /\ LET list == Call("product.List", "truncate", 0, 0, 0, "")
       IN  \/ /\ snapshot' = ActiveIDs(remote.products)
              /\ calls' = Append(calls, list)
              /\ k' = 1
              /\ pc' = "tproducts"
              /\ UNCHANGED ret
           \/ /\ calls' = Append(calls, Failed(list))
              /\ Return(Returned(result, Error("truncate", NoString, "list products")))
              /\ UNCHANGED <<snapshot, k>>
    /\ UNCHANGED <<cfg, env, mode, remote, i, todo, cur, productID, existingPrices,
                   result, diff, run, prev, margs, matched>>

\* Truncate, lines 54-63: one product of the list
TruncateProduct ==
    /\ pc = "tproducts" /\ k <= Len(snapshot)
    /\ LET update == Call("product.Update", "truncate", 0, snapshot[k], 0, "")
       IN  \/ /\ remote' = DeactivateProduct(remote, snapshot[k])
              /\ calls' = Append(calls, update)
              /\ result' = [result EXCEPT !.ProductsArchived = @ + 1]
              /\ k' = k + 1
              /\ UNCHANGED <<pc, ret>>
           \/ /\ calls' = Append(calls, Failed(update))
              /\ Return(Returned(result, Error("truncate", NoString, "archive product")))
              /\ UNCHANGED <<remote, result, k>>
    /\ UNCHANGED <<cfg, env, mode, snapshot, i, todo, cur, productID, existingPrices,
                   diff, run, prev, margs, matched>>

\* Truncate, lines 64-72: the products are done, the coupons are listed
TruncateListCoupons ==
    /\ pc = "tproducts" /\ k > Len(snapshot)
    /\ LET list == Call("coupon.List", "truncate", 0, 0, 0, "")
       IN  \/ /\ todo' = remote.coupons
              /\ calls' = Append(calls, list)
              /\ pc' = "tcoupons"
              /\ UNCHANGED ret
           \/ /\ calls' = Append(calls, Failed(list))
              /\ Return(Returned(result, Error("truncate", NoString, "list coupons")))
              /\ UNCHANGED todo
    /\ UNCHANGED <<cfg, env, mode, remote, snapshot, i, cur, k, productID,
                   existingPrices, result, diff, run, prev, margs, matched>>

\* Truncate, lines 73-80: one coupon of the list
TruncateCoupon ==
    /\ pc = "tcoupons" /\ todo # {}
    /\ \E c \in todo :
          LET del == Call("coupon.Del", "truncate", 0, 0, 0, "")
          IN  \/ /\ remote' = DelCoupon(remote, c)
                 /\ calls' = Append(calls, del)
                 /\ result' = [result EXCEPT !.CouponsDeleted = @ + 1]
                 /\ todo' = todo \ {c}
                 /\ UNCHANGED <<pc, ret>>
              \/ /\ calls' = Append(calls, Failed(del))
                 /\ Return(Returned(result, Error("truncate", NoString, "delete coupon")))
                 /\ UNCHANGED <<remote, result, todo>>
    /\ UNCHANGED <<cfg, env, mode, snapshot, i, cur, k, productID, existingPrices,
                   diff, run, prev, margs, matched>>

\* Truncate, lines 81-85
TruncateReturn ==
    /\ pc = "tcoupons" /\ todo = {}
    /\ Return(Returned(result, NoError))
    /\ UNCHANGED <<cfg, env, mode, remote, snapshot, i, todo, cur, k, productID,
                   existingPrices, result, diff, calls, run, prev, margs>>
    /\ UNCHANGED matched

---------------------------------------------------------------------------
(* The import command *)

\* planIDFromProduct, lines 98-104
planIDFromProduct(prod) ==
    IF prod.PlanCode # NoString THEN prod.PlanCode ELSE normalizeName(prod.Name)

\* Import, lines 60-74: the key a price is stored under
ImportKey(p) == IF p.Interval = "" THEN "one_time" ELSE p.Interval

\* Import, lines 41-82: the plan made of a product; a later price of the list
\* overwrites an earlier one with the same key
ImportPlan(prod) ==
    LET active == Filter(prod.Prices, IsActiveObject)
        keys == {ImportKey(active[n]) : n \in DOMAIN active}
        last(key) == CHOOSE n \in DOMAIN active :
                        /\ ImportKey(active[n]) = key
                        /\ \A o \in DOMAIN active : ImportKey(active[o]) = key => o <= n
    IN  [ID |-> planIDFromProduct(prod), Name |-> prod.Name,
         BillingModel |-> IF keys = {"one_time"} THEN "one_time" ELSE "",
         Prices |-> [key \in keys |-> FlatPrice(active[last(key)].Amount)]]

HasPrices(plan) == DOMAIN plan.Prices # {}

\* Import, lines 22-94: the billing config made of the fetched products
ImportBilling(products) ==
    LET active == Filter(products, IsActiveObject)
        plans == [n \in DOMAIN active |-> ImportPlan(active[n])]
    IN  [Providers |-> <<"stripe">>, Plans |-> Filter(plans, HasPrices)]

\* the operator runs import right after another command; nobody else changes the
\* account
ThenImport ==
    /\ pc = "done" /\ mode \in {"apply", "truncate"} /\ run = 1 /\ run < MaxRuns
    /\ ~HasCommand
    /\ run' = run + 1
    /\ prev' = [mode |-> mode, ret |-> ret, remote |-> remote]
    /\ mode' = "import"
    /\ pc' = "start"
    /\ snapshot' = << >> /\ i' = 0 /\ todo' = {} /\ cur' = "" /\ k' = 0
    /\ productID' = 0 /\ existingPrices' = << >> /\ matched' = 0
    /\ result' = ZeroSyncResult /\ ret' = NotReturned /\ diff' = NoDiff
    /\ calls' = << >>
    /\ UNCHANGED <<cfg, env, remote, margs>>

\* Import, lines 16-95
Import ==
    /\ pc = "start" /\ mode = "import"
    /\ \/ /\ snapshot' = FetchProductsWithPrices(remote)
          /\ calls' = FetchCalls(remote, 1 + Len(FetchProducts(remote)))
          /\ Return(Returned(ImportBilling(snapshot'), NoError))
       \/ \E made \in 1..(1 + Len(FetchProducts(remote))) :
             /\ calls' = [FetchCalls(remote, made) EXCEPT ![made] = Failed(@)]
             /\ Return(ReturnedNil(Error("fetch", NoString, "list")))
             /\ UNCHANGED snapshot
    /\ UNCHANGED <<cfg, env, mode, remote, i, todo, cur, k, productID, existingPrices,
                   result, diff, run, prev, margs, matched>>

---------------------------------------------------------------------------
(* A call of MatchProduct on its own *)

Match ==
    /\ pc = "start" /\ mode = "match"
    /\ matched' = MatchProduct(margs.products, margs.planID, margs.planName)
    /\ pc' = "done"
    /\ UNCHANGED <<cfg, env, mode, remote, snapshot, i, todo, cur, k, productID,
                   existingPrices, result, ret, diff, calls, run, prev, margs>>

---------------------------------------------------------------------------
(* The semantic pass of validate, on the parsed document *)

\* validateBillingSemantics, lines 233-238
definedEntitlements(data) ==
    IF data.entitlements.present THEN data.entitlements.keys ELSE {}

\* a pass that checks the references also when nothing is defined
SkipsSemantics_Never(defined) == FALSE

\* validateBillingSemantics, lines 240-242
SkipsSemantics(defined) == defined = {}

\* ValidationError, lines 258-262 and 283-287: the path, kept as its parts; the
\* index is the position in the list, counted from 0
ValidationError(section, index, field, key) ==
    [section |-> section, index |-> index, field |-> field, key |-> key]

\* the orders in which a range over a map can visit the keys
KeyOrders(keys) ==
    {o \in [1..Cardinality(keys) -> keys] : \A a, b \in DOMAIN o : o[a] = o[b] => a = b}

\* lines 255-265 and 280-290: the errors of one plan or addon, in every key order
EntryErrors(section, index, field, mapping, defined) ==
    IF ~mapping.present THEN {<< >>}
    ELSE {[n \in DOMAIN o |-> ValidationError(section, index, field, o[n])] :
             o \in KeyOrders(mapping.keys \ defined)}

RECURSIVE SectionErrors(_, _, _, _, _)
\* lines 244-267 and 269-292: the errors of the first n entries of a list
SectionErrors(section, field, mappings, n, defined) ==
    IF n = 0 THEN {<< >>}
    ELSE {a \o b : a \in SectionErrors(section, field, mappings, n - 1, defined),
                   b \in EntryErrors(section, n - 1, field, mappings[n], defined)}

\* a pass that stops at the first violation
validateBillingSemantics_FirstOnly(data) ==
    LET defined == definedEntitlements(data)
        limits == [n \in DOMAIN data.plans |-> data.plans[n].limits]
        grants == [n \in DOMAIN data.addons |-> data.addons[n].grants]
        all == {a \o b : a \in SectionErrors("plans", "limits", limits, Len(limits), defined),
                         b \in SectionErrors("addons", "grants", grants, Len(grants), defined)}
    IN  IF SkipsSemantics(defined) THEN {<< >>}
        ELSE {SubSeq(e, 1, IF Len(e) > 1 THEN 1 ELSE Len(e)) : e \in all}

\* validateBillingSemantics, lines 225-295: the error lists it can return
validateBillingSemantics(data) ==
    LET defined == definedEntitlements(data)
        limits == [n \in DOMAIN data.plans |-> data.plans[n].limits]
        grants == [n \in DOMAIN data.addons |-> data.addons[n].grants]
    IN  IF SkipsSemantics(defined) THEN {<< >>}
        ELSE {a \o b : a \in SectionErrors("plans", "limits", limits, Len(limits), defined),
                       b \in SectionErrors("addons", "grants", grants, Len(grants), defined)}

Validate ==
    /\ pc = "start" /\ mode = "validate"
    /\ \E errors \in validateBillingSemantics(margs) :
          Return(Returned(errors, NoError))
    /\ UNCHANGED <<cfg, env, mode, remote, snapshot, i, todo, cur, k, productID,
                   existingPrices, result, diff, calls, run, prev, margs, matched>>

---------------------------------------------------------------------------
(* A call of Compare on its own, on the products of the account *)

CompareCall ==
    /\ pc = "start" /\ mode = "compare"
    /\ snapshot' = FetchProductsWithPrices(remote)
    /\ diff' = Compare(cfg, snapshot')
    /\ pc' = "done"
    /\ UNCHANGED <<cfg, env, mode, remote, i, todo, cur, k, productID, existingPrices,
                   result, ret, calls, run, prev, margs, matched>>

---------------------------------------------------------------------------
Next ==
    \/ SyncFetch \/ DryRun \/ ThenImport \/ Import \/ CompareCall \/ Validate
    \/ SyncPlan \/ PlanPricesDone \/ SyncPrice \/ ArchiveConflict \/ CreatePrice
    \/ PlansDone \/ SyncAddon \/ AddonPrice \/ AddonsDone
    \/ SyncPromotion \/ PromotionCode \/ SyncReturn
    \/ TruncateStart \/ TruncatePrice \/ TruncateListProducts \/ TruncateProduct
    \/ TruncateListCoupons \/ TruncateCoupon \/ TruncateReturn
    \/ Match
    \/ Again
    \/ ApplyChecks \/ TruncateConfirm \/ CommandKey

Spec == Init /\ [][Next]_vars

---------------------------------------------------------------------------
(* Properties *)

\* the indexes of the log entries of the given calls
CallsOf(ops) == {n \in DOMAIN calls : calls[n].op \in ops}

OkCalls(ops) == {n \in CallsOf(ops) : calls[n].out = "ok"}

MatchDone == mode = "match" /\ pc = "done"

\* the active products of the argument list whose plan_code is the local id
CodeHits ==
    {n \in DOMAIN margs.products :
        margs.products[n].Active /\ margs.products[n].PlanCode = margs.planID}

\* the normalized form of the names and ids of the model, written out by hand:
\* lowercased, spaces and hyphens turned into underscores, one trailing _plan removed
Normalized(s) ==
    CASE s = S_ProPlan -> S_pro
      [] s = S_Pro -> S_pro
      [] s = S_proDashPlan -> S_pro
      [] s = S_pro_plan -> S_pro
      [] s = S_pro -> S_pro
      [] s = S_ProPlanPlan -> S_pro_plan
      [] s = S_Basic -> <<"b", "a", "s", "i", "c">>
      [] s = S_team -> S_team

\* the active products of the argument list whose normalized name is the
\* normalized local id
NameHits ==
    {n \in DOMAIN margs.products :
        margs.products[n].Active
        /\ Normalized(margs.products[n].Name) = Normalized(margs.planID)}

\* C4: when an active product carries the local id as plan_code, MatchProduct
\* returns the first such product of the list, whatever products match by name.
C4_MatcherPriority ==
    (MatchDone /\ CodeHits # {}) =>
        /\ matched \in CodeHits
        /\ \A n \in CodeHits : matched <= n

\* a product matching by name comes before the product returned for its code
C4_Witness ==
    /\ MatchDone /\ CodeHits # {}
    /\ \E n \in NameHits : n < matched /\ n \notin CodeHits

\* C5: without a code match MatchProduct returns the first active product whose
\* normalized name is the normalized local id, nil when there is none, and the
\* local plan name has no influence on the result.
C5_MatcherFallback ==
    (MatchDone /\ CodeHits = {}) =>
        /\ NameHits = {} => matched = 0
        /\ NameHits # {} => matched \in NameHits /\ \A n \in NameHits : matched <= n
        /\ \A name \in {S_ProPlan, S_Basic, S_Pro, S_team, NoString} :
              MatchProduct(margs.products, margs.planID, name) = matched

\* the fallback finds a hyphenated name behind a product that does not match
C5_Witness ==
    /\ MatchDone /\ CodeHits = {}
    /\ matched = 2
    /\ margs.products[2].Name = S_proDashPlan
    /\ margs.planName = S_Basic

TruncateMutations == {"price.Update", "product.Update", "coupon.Del"}

\* C9: Truncate on a client that is not a sandbox client returns an error and a
\* nil result and makes no remote call at all.
C9_TruncateSafetyRail ==
    (mode = "truncate" /\ env # "sandbox") =>
        /\ calls = << >>
        /\ pc \in {"start", "done"}
        /\ pc = "done" => ret.nilResult /\ ret.err # NoError

\* a production client refused, on an account that has something to archive
C9_Witness ==
    /\ mode = "truncate" /\ env = "production" /\ pc = "done"
    /\ \E n \in DOMAIN remote.prices : remote.prices[n].Active
    /\ remote.coupons # {}

TruncateRank(op) ==
    IF op = "price.Update" THEN 1 ELSE IF op = "product.Update" THEN 2 ELSE 3

\* C10: in a Truncate run the price deactivations come first, then the product
\* deactivations, then the coupon deletions; a failing call is the last call of the
\* run, and the result returned with the error counts the calls that succeeded.
C10_TruncateOrdering ==
    mode = "truncate" =>
        /\ \A a, b \in CallsOf(TruncateMutations) :
              a < b => TruncateRank(calls[a].op) <= TruncateRank(calls[b].op)
        /\ \A n \in DOMAIN calls :
              calls[n].out # "ok" =>
                 /\ n = Len(calls)
                 /\ pc = "done" /\ ret.err # NoError /\ ~ret.nilResult
        /\ (pc = "done" /\ ~ret.nilResult) =>
              /\ ret.result.PricesArchived = Cardinality(OkCalls({"price.Update"}))
              /\ ret.result.ProductsArchived = Cardinality(OkCalls({"product.Update"}))
              /\ ret.result.CouponsDeleted = Cardinality(OkCalls({"coupon.Del"}))

\* a coupon deletion fails after prices and products were archived
C10_Witness ==
    /\ mode = "truncate" /\ pc = "done" /\ ret.err # NoError
    /\ ret.result.PricesArchived > 0 /\ ret.result.ProductsArchived > 0
    /\ calls[Len(calls)].op = "coupon.Del"

---------------------------------------------------------------------------
(* Properties of Sync and Compare *)

\* the log entries of the given calls made for an entity of the catalog
EntityCalls(ops, kind, n) ==
    {c \in CallsOf(ops) : calls[c].kind = kind /\ calls[c].idx = n}

WarningsOf(res, kind) == {w \in DOMAIN res.Warnings : res.Warnings[w].kind = kind}

\* the active prices of a snapshot product on an interval
ActiveOn(prices, interval) ==
    {n \in DOMAIN prices : prices[n].Interval = interval /\ prices[n].Active}

\* the list that decides whether a plan is compared: its own when it has entries,
\* else the catalog's
ProvidersOf(plan) == IF Len(plan.Providers) > 0 THEN plan.Providers ELSE cfg.Providers

\* the catalog places of the plans whose list names stripe
StripeTargets ==
    {n \in DOMAIN cfg.Plans :
        \E j \in DOMAIN ProvidersOf(cfg.Plans[n]) : ProvidersOf(cfg.Plans[n])[j] = "stripe"}

\* the catalog place of the n-th plan whose list names stripe
NthTarget(n) ==
    CHOOSE t \in StripeTargets : Cardinality({u \in StripeTargets : u <= t}) = n

SyncPositions == {"plan", "price", "archive", "create", "addon", "addonPrice",
                  "promo", "promoCode"}

\* Sync is past the plan n of the catalog without an error
PlanSynced(n) ==
    /\ mode = "apply"
    /\ \/ pc \in {"plan", "price", "archive", "create"} /\ i > n
       \/ pc \in {"addon", "addonPrice", "promo", "promoCode"}
       \/ /\ pc = "done"
          /\ \/ ret.err = NoError
             \/ ret.err.kind \in {"addon", "promotion"}
             \/ ret.err.kind = "plan" /\ i > n

\* this run is an apply that follows a successful apply of the same catalog
SecondApply ==
    /\ run > 1 /\ mode = "apply"
    /\ prev.mode = "apply" /\ prev.ret.err = NoError

\* C1: a Sync that follows a successful Sync of the same catalog, with the account
\* untouched in between, makes no create, archive or delete call that the account
\* accepts, returns only zero counts and emits no price-conflict warning.  (A call
\* the account rejects, such as coupon.New for a coupon that exists, is not counted
\* here.)
C1_ApplyTwiceIsIdempotent ==
    SecondApply =>
        /\ OkCalls(Mutations) = {}
        /\ (pc = "done" /\ ret.err = NoError) =>
              /\ ret.result.ProductsCreated = 0 /\ ret.result.PricesCreated = 0
              /\ ret.result.PricesArchived = 0 /\ ret.result.AddonsCreated = 0
              /\ ret.result.CouponsCreated = 0 /\ ret.result.PromosCreated = 0
              /\ WarningsOf(ret.result, "price differs") = {}

\* the plan n is matched and its flat price on interval has, among the active prices
\* of the matched product on that interval, exactly one, of another amount
OneConflict(n, interval) ==
    LET plan == cfg.Plans[n]
        m == MatchProduct(snapshot, plan.ID, plan.Name)
    IN  /\ m # 0
        /\ PriceType(plan.Prices[interval]) = "flat"
        /\ Cardinality(ActiveOn(snapshot[m].Prices, interval)) = 1
        /\ \A o \in ActiveOn(snapshot[m].Prices, interval) :
              snapshot[m].Prices[o].Amount # plan.Prices[interval].Amount

\* C2: when the only active remote price of the matched product on the interval of
\* a flat local price has another amount, a Sync that gets past the plan has emitted
\* one warning with both amounts, has deactivated that price and has then created
\* one price with the local amount; the old price is still in the account.
C2_ConflictReplace ==
    \A n \in DOMAIN cfg.Plans : \A interval \in DOMAIN cfg.Plans[n].Prices :
        (PlanSynced(n) /\ OneConflict(n, interval)) =>
            LET plan == cfg.Plans[n]
                m == MatchProduct(snapshot, plan.ID, plan.Name)
                old == snapshot[m].Prices[CHOOSE o \in ActiveOn(snapshot[m].Prices, interval) : TRUE]
                warned == {w \in WarningsOf(result, "price differs") :
                              /\ result.Warnings[w].id = plan.ID
                              /\ result.Warnings[w].interval = interval}
                updates == {c \in EntityCalls({"price.Update"}, "plan", n) :
                               calls[c].interval = interval}
                creates == {c \in EntityCalls({"price.New"}, "plan", n) :
                               calls[c].interval = interval}
            IN  /\ Cardinality(warned) = 1
                /\ \A w \in warned :
                      /\ result.Warnings[w].local = plan.Prices[interval].Amount
                      /\ result.Warnings[w].stripe = old.Amount
                /\ Cardinality(updates) = 1
                /\ \A c \in updates : calls[c].out = "ok" /\ calls[c].id = old.ID
                /\ Cardinality(creates) = 1
                /\ \A c \in creates :
                      /\ calls[c].out = "ok"
                      /\ calls[c].amount = plan.Prices[interval].Amount
                      /\ \E q \in DOMAIN remote.prices :
                            /\ remote.prices[q].ID = calls[c].id
                            /\ remote.prices[q].Active
                            /\ remote.prices[q].UnitAmount = plan.Prices[interval].Amount
                            /\ remote.prices[q].Product = snapshot[m].ID
                /\ \A u \in updates : \A c \in creates : u < c
                /\ \E q \in DOMAIN remote.prices :
                      remote.prices[q].ID = old.ID /\ ~remote.prices[q].Active
                /\ CallsOf({"coupon.Del", "product.Update"}) = {}

\* the conflict of the example: local 2900 against an active remote price of 1900
C2_Witness ==
    /\ run = 1 /\ mode = "apply" /\ pc = "done" /\ ret.err = NoError
    /\ Len(cfg.Plans) = 1 /\ DOMAIN cfg.Plans[1].Prices = {"monthly"}
    /\ cfg.Plans[1].Prices["monthly"] = FlatPrice(2900)
    /\ OneConflict(1, "monthly")
    /\ LET m == MatchProduct(snapshot, cfg.Plans[1].ID, cfg.Plans[1].Name)
       IN  \E n \in DOMAIN snapshot[m].Prices :
              snapshot[m].Prices[n].Active /\ snapshot[m].Prices[n].Amount = 1900
    /\ ret.result.PricesArchived = 1 /\ ret.result.PricesCreated = 1

\* a snapshot without its inactive prices
WithoutArchived(products) ==
    [n \in DOMAIN products |->
        [products[n] EXCEPT !.Prices = Filter(@, IsActiveObject)]]

\* the active prices of the product matched to an entity, with interval and amount
ActiveExact(id, name, interval, amount) ==
    LET m == MatchProduct(snapshot, id, name)
    IN  IF m = 0 THEN {}
        ELSE {o \in ActiveOn(snapshot[m].Prices, interval) :
                 snapshot[m].Prices[o].Amount = amount}

\* the prices of the snapshot
SnapshotPrices ==
    UNION {{snapshot[m].Prices[o] : o \in DOMAIN snapshot[m].Prices} : m \in DOMAIN snapshot}

\* C3: MatchProduct never returns an inactive product; the diff of a dry run is the
\* diff of the snapshot without its inactive prices, and a price it reports OK or
\* DIFFERS has an active remote price of the reported amount; Sync archives and
\* warns about active prices only, and a flat price or addon price whose only remote
\* equals are inactive is created.
C3_ArchivedExclusion ==
    /\ MatchDone => (matched = 0 \/ margs.products[matched].Active)
    /\ (mode = "apply" /\ pc \in SyncPositions /\ pc \notin {"promo", "promoCode"}
        /\ matched # 0) => snapshot[matched].Active
    /\ (mode = "dry-run" /\ pc = "done" /\ ~ret.nilResult) =>
          /\ diff = Compare(cfg, WithoutArchived(snapshot))
          /\ \A n \in DOMAIN diff.Plans : \A interval \in DOMAIN diff.Plans[n].Prices :
                diff.Plans[n].Prices[interval].Status \in {"OK", "DIFFERS"} =>
                    LET plan == cfg.Plans[NthTarget(n)]
                        m == MatchProduct(snapshot, plan.ID, plan.Name)
                    IN  \E o \in ActiveOn(snapshot[m].Prices, interval) :
                           snapshot[m].Prices[o].Amount =
                               diff.Plans[n].Prices[interval].StripeAmount
    /\ mode = "apply" =>
          /\ \A c \in CallsOf({"price.Update"}) :
                \E p \in SnapshotPrices : p.ID = calls[c].id /\ p.Active
          /\ \A w \in WarningsOf(result, "price differs") :
                \E p \in SnapshotPrices :
                   /\ p.Active /\ p.Amount = result.Warnings[w].stripe
                   /\ p.Interval = result.Warnings[w].interval
          /\ \A n \in DOMAIN cfg.Plans : \A interval \in DOMAIN cfg.Plans[n].Prices :
                LET plan == cfg.Plans[n]
                IN  (/\ PlanSynced(n)
                     /\ PriceType(plan.Prices[interval]) = "flat"
                     /\ ActiveExact(plan.ID, plan.Name, interval,
                                    plan.Prices[interval].Amount) = {}) =>
                        \E c \in EntityCalls({"price.New"}, "plan", n) :
                           calls[c].interval = interval /\ calls[c].out = "ok"
          /\ \A n \in DOMAIN cfg.Addons :
                LET addon == cfg.Addons[n]
                IN  (/\ \/ pc \in {"addon", "addonPrice"} /\ i > n
                        \/ pc \in {"promo", "promoCode"}
                        \/ pc = "done" /\ ret.err = NoError
                     /\ ActiveExact(addon.ID, addon.Name, "", addon.Price.Amount) = {}) =>
                        \E c \in EntityCalls({"price.New"}, "addon", n) : calls[c].out = "ok"

\* the matched product has an archived monthly price of the local amount and no
\* active one: Sync has created the price and archived nothing
C3_Witness ==
    /\ run = 1 /\ mode = "apply" /\ pc = "done" /\ ret.err = NoError
    /\ Len(cfg.Plans) = 1 /\ DOMAIN cfg.Plans[1].Prices = {"monthly"}
    /\ cfg.Plans[1].Prices["monthly"] = FlatPrice(2900)
    /\ LET m == MatchProduct(snapshot, cfg.Plans[1].ID, cfg.Plans[1].Name)
       IN  /\ m # 0
           /\ ActiveOn(snapshot[m].Prices, "monthly") = {}
           /\ \E o \in DOMAIN snapshot[m].Prices :
                 /\ ~snapshot[m].Prices[o].Active
                 /\ snapshot[m].Prices[o].Interval = "monthly"
                 /\ snapshot[m].Prices[o].Amount = 2900
    /\ ret.result.PricesCreated = 1 /\ ret.result.PricesArchived = 0
    /\ ret.result.Warnings = << >>

\* C6: a reported plan is MISSING iff MatchProduct finds no product; otherwise it is
\* OK iff every local interval has an active remote price of the matched product
\* with that label and the local amount, and DIFFERS in every other case.
C6_DiffClassification ==
    (mode = "dry-run" /\ pc = "done" /\ ~ret.nilResult) =>
        /\ \A n \in DOMAIN diff.Plans :
              LET plan == cfg.Plans[NthTarget(n)]
                  m == MatchProduct(snapshot, plan.ID, plan.Name)
                  covered == \A interval \in DOMAIN plan.Prices :
                                ActiveExact(plan.ID, plan.Name, interval,
                                            plan.Prices[interval].Amount) # {}
              IN  /\ diff.Plans[n].PlanID = plan.ID
                  /\ diff.Plans[n].Status \in {"MISSING", "OK", "DIFFERS"}
                  /\ diff.Plans[n].Status = "MISSING" <=> m = 0
                  /\ m # 0 => (diff.Plans[n].Status = "OK" <=> covered)

\* the two-price account of the example: the first active monthly price is 1900,
\* a later one has the local amount
C6_FirstPriceOnly ==
    /\ mode = "dry-run" /\ pc = "done" /\ ~ret.nilResult
    /\ Len(cfg.Plans) = 1 /\ DOMAIN cfg.Plans[1].Prices = {"monthly"}
    /\ ActiveExact(cfg.Plans[1].ID, cfg.Plans[1].Name, "monthly", 2900) # {}
    /\ cfg.Plans[1].Prices["monthly"] = FlatPrice(2900)
    /\ diff.Plans[1].Status = "DIFFERS"

\* the place of a call in the order plans, addons, promotions
PhaseRank(kind) ==
    CASE kind = "fetch" -> 0
      [] kind = "plan" -> 1
      [] kind = "addon" -> 2
      [] kind = "promotion" -> 3

NotAfter(kind1, idx1, kind2, idx2) ==
    \/ PhaseRank(kind1) < PhaseRank(kind2)
    \/ PhaseRank(kind1) = PhaseRank(kind2) /\ idx1 <= idx2

Entities(kind) ==
    CASE kind = "plan" -> cfg.Plans
      [] kind = "addon" -> cfg.Addons
      [] kind = "promotion" -> cfg.Promotions

EntityID(kind, n) ==
    IF kind = "promotion" THEN cfg.Promotions[n].Code ELSE Entities(kind)[n].ID

\* Sync has returned the error of a plan, an addon or a promotion
SyncFailed ==
    /\ mode = "apply" /\ pc = "done"
    /\ ret.err.kind \in {"plan", "addon", "promotion"}

\* C7: the calls of Sync follow the order plans, addons, promotions, each in catalog
\* order; a failing call is the last call; the error names the id or code of the
\* entity that failed and no call is made for a later entity; a Sync that succeeds
\* has created every unmatched plan and addon and every active promotion's coupon.
C7_SyncOrderingAndAbort ==
    mode = "apply" =>
        /\ \A a, b \in DOMAIN calls :
              a < b => NotAfter(calls[a].kind, calls[a].idx, calls[b].kind, calls[b].idx)
        /\ \A c \in DOMAIN calls :
              calls[c].out = "failed" =>
                  /\ c = Len(calls) /\ pc = "done"
                  /\ IF calls[c].kind = "fetch" THEN ret.err.kind = "fetch"
                     ELSE /\ ret.err.kind = calls[c].kind
                          /\ ret.err.id = EntityID(calls[c].kind, calls[c].idx)
        /\ SyncFailed =>
              /\ i \in DOMAIN Entities(ret.err.kind)
              /\ ret.err.id = EntityID(ret.err.kind, i)
              /\ \A c \in DOMAIN calls :
                    NotAfter(calls[c].kind, calls[c].idx, ret.err.kind, i)
        /\ (pc = "done" /\ ret.err = NoError) =>
              /\ \A n \in DOMAIN cfg.Plans :
                    MatchProduct(snapshot, cfg.Plans[n].ID, cfg.Plans[n].Name) = 0 =>
                        \E c \in EntityCalls({"product.New"}, "plan", n) : calls[c].out = "ok"
              /\ \A n \in DOMAIN cfg.Addons :
                    MatchProduct(snapshot, cfg.Addons[n].ID, cfg.Addons[n].Name) = 0 =>
                        \E c \in EntityCalls({"product.New"}, "addon", n) : calls[c].out = "ok"
              /\ \A n \in DOMAIN cfg.Promotions :
                    IsActive(cfg.Promotions[n]) =>
                        EntityCalls({"coupon.New"}, "promotion", n) # {}

\* an addon fails after a plan was created and before an active promotion is reached
C7_Witness ==
    /\ SyncFailed /\ ret.err.kind = "addon" /\ ret.err.id = S_seats
    /\ \E c \in EntityCalls({"product.New"}, "plan", 1) : calls[c].out = "ok"
    /\ calls[Len(calls)].out = "failed"
    /\ \E n \in DOMAIN cfg.Promotions : IsActive(cfg.Promotions[n])
    /\ CallsOf({"coupon.New", "promotioncode.New"}) = {}

\* the number of calls of an operation for a kind of entity that succeeded
OkOf(op, kind) == Cardinality({c \in OkCalls({op}) : calls[c].kind = kind})

\* the counts of a SyncResult are the numbers of the calls that succeeded
CountsAreOkCalls(res) ==
    /\ res.ProductsCreated = OkOf("product.New", "plan")
    /\ res.AddonsCreated = OkOf("product.New", "addon")
    /\ res.PricesCreated = OkOf("price.New", "plan") + OkOf("price.New", "addon")
    /\ res.PricesArchived = OkOf("price.Update", "plan")
    /\ res.CouponsCreated = OkOf("coupon.New", "promotion")
    /\ res.PromosCreated = OkOf("promotioncode.New", "promotion")

\* the plans Sync has looked at when it returns
VisitedPlans ==
    {n \in DOMAIN cfg.Plans : ret.err.kind = "plan" => n <= i}

\* the visited plans whose matched product has another name
RenamedPlans ==
    {n \in VisitedPlans :
        LET m == MatchProduct(snapshot, cfg.Plans[n].ID, cfg.Plans[n].Name)
        IN  m # 0 /\ snapshot[m].Name # cfg.Plans[n].Name}

RejectedCalls(op) == {c \in CallsOf({op}) : calls[c].out = "exists"}

\* the warnings that come from no failing call
OtherWarnings(res) ==
    /\ Cardinality(WarningsOf(res, "name differs")) = Cardinality(RenamedPlans)
    /\ Cardinality(WarningsOf(res, "coupon exists")) =
          Cardinality(RejectedCalls("coupon.New"))
    /\ Cardinality(WarningsOf(res, "promotion code exists")) =
          Cardinality(RejectedCalls("promotioncode.New"))
    /\ \A w \in DOMAIN res.Warnings :
          res.Warnings[w].kind \in {"name differs", "price differs", "coupon exists",
                                    "promotion code exists"}

\* nothing Sync has changed is undone: no product is archived, no coupon deleted,
\* only prices of the snapshot are archived, what was created is still there
NoCompensation ==
    /\ CallsOf({"product.Update", "coupon.Del"}) = {}
    /\ \A c \in CallsOf({"price.Update"}) :
          \E p \in SnapshotPrices : p.ID = calls[c].id
    /\ \A c \in OkCalls({"product.New"}) :
          \E q \in DOMAIN remote.products :
             remote.products[q].ID = calls[c].id /\ remote.products[q].Active
    /\ \A c \in OkCalls({"price.New"}) :
          \E q \in DOMAIN remote.prices :
             remote.prices[q].ID = calls[c].id /\ remote.prices[q].Active
    /\ \A c \in OkCalls({"coupon.New"}) :
          cfg.Promotions[calls[c].idx].Code \in remote.coupons
    /\ \A c \in OkCalls({"promotioncode.New"}) :
          cfg.Promotions[calls[c].idx].Code \in remote.promoCodes

\* C8 as stated: the warnings of the partial result come from calls that succeeded,
\* one price-conflict warning for every price that was archived.
C8_WarningsOfSucceededCalls ==
    SyncFailed =>
        /\ ~ret.nilResult
        /\ CountsAreOkCalls(ret.result)
        /\ OtherWarnings(ret.result)
        /\ Cardinality(WarningsOf(ret.result, "price differs")) =
              Cardinality(OkCalls({"price.Update"}))
        /\ NoCompensation

\* C8: when an entity fails, Sync returns with the error a non-nil result whose
\* counts are the numbers of the calls that succeeded and whose warnings are those
\* appended before the failure: the price-conflict warning is appended before the
\* archive call, so there is one for every archive call made, the failing one
\* included; no call undoes an earlier mutation.
C8_PartialResult ==
    SyncFailed =>
        /\ ~ret.nilResult
        /\ ret.result = result
        /\ CountsAreOkCalls(ret.result)
        /\ OtherWarnings(ret.result)
        /\ Cardinality(WarningsOf(ret.result, "price differs")) =
              Cardinality(CallsOf({"price.Update"}))
        /\ \A c \in CallsOf({"price.Update"}) :
              \E w \in WarningsOf(ret.result, "price differs") :
                 /\ ret.result.Warnings[w].id = cfg.Plans[calls[c].idx].ID
                 /\ ret.result.Warnings[w].interval = calls[c].interval
                 /\ ret.result.Warnings[w].stripe = calls[c].amount
        /\ NoCompensation

\* a later entity fails after a price was archived and a price was created
C8_Witness ==
    /\ SyncFailed /\ ret.err.kind # "plan"
    /\ ret.result.PricesArchived = 1 /\ ret.result.PricesCreated >= 1
    /\ Cardinality(WarningsOf(ret.result, "price differs")) = 1
    /\ calls[Len(calls)].out = "failed"

\* the archive call itself fails: the warning is returned, the count is not raised
C8_FailedArchive ==
    /\ SyncFailed /\ ret.err.cause = "archive price"
    /\ ret.result.PricesArchived = 0
    /\ Cardinality(WarningsOf(ret.result, "price differs")) = 1

---------------------------------------------------------------------------
(* Properties of Truncate followed by Import, of the dry run and of the exit status *)

\* nothing of the account is left for a fetch to see
AccountIsEmpty(r) ==
    /\ \A n \in DOMAIN r.prices : ~r.prices[n].Active
    /\ \A n \in DOMAIN r.products : ~r.products[n].Active
    /\ r.coupons = {}

\* C11: after a Truncate that returned no error no price and no product of the
\* account is active and no coupon exists, and the Import that follows it returns a
\* catalog without plans.
C11_TruncateThenImportEmpty ==
    /\ (mode = "truncate" /\ pc = "done" /\ ret.err = NoError /\ ~ret.nilResult) =>
          AccountIsEmpty(remote)
    /\ (mode = "import" /\ prev.mode = "truncate" /\ prev.ret.err = NoError) =>
          /\ AccountIsEmpty(remote)
          /\ (pc = "done" /\ ~ret.nilResult) => ret.result.Plans = << >>

\* the truncated account had prices, products and coupons
C11_Witness ==
    /\ mode = "import" /\ prev.mode = "truncate" /\ prev.ret.err = NoError
    /\ pc = "done" /\ ~ret.nilResult
    /\ prev.ret.result.PricesArchived >= 2
    /\ prev.ret.result.ProductsArchived >= 2
    /\ prev.ret.result.CouponsDeleted >= 1

\* C12: a dry run makes list calls only, product.List first and then price.List
\* for each listed product in list order, and leaves the account as it was.
C12_DryRunReadOnly ==
    mode = "dry-run" =>
        /\ \A c \in DOMAIN calls :
              /\ calls[c].op \in {"product.List", "price.List"}
              /\ calls[c].op = "product.List" <=> c = 1
              /\ c > 1 => calls[c].id = FetchProducts(remote)[c - 1].ID
        /\ CallsOf(Mutations) = {}
        /\ run > 1 => remote = prev.remote
        /\ result = ZeroSyncResult

\* a dry run that reports differences on an account with products, after an apply
C12_Witness ==
    /\ mode = "dry-run" /\ pc = "done" /\ ~ret.nilResult
    /\ run > 1 /\ Len(calls) >= 2
    /\ diff.Summary.Differs + diff.Summary.Missing > 0

\* the dry run has compared and returned
DryRunCompared == mode = "dry-run" /\ pc = "done" /\ ~ret.nilResult

\* C13 as stated: HasDifferences is true iff missing + differs > 0; a dry run
\* without error exits with status 0 iff HasDifferences is false; every catalog of
\* one plan that has no remote product gives missing = 1, total = 1 and a status
\* other than 0.
C13_AnyMissingPlanIsCounted ==
    DryRunCompared =>
        /\ HasDifferences(diff) <=> diff.Summary.Missing + diff.Summary.Differs > 0
        /\ ExitStatus(ret.err) = 0 <=> ~HasDifferences(diff)
        /\ (/\ Len(cfg.Plans) = 1
            /\ MatchProduct(snapshot, cfg.Plans[1].ID, cfg.Plans[1].Name) = 0) =>
               /\ diff.Summary.Missing = 1 /\ diff.Summary.Total = 1
               /\ ExitStatus(ret.err) # 0

\* C13: HasDifferences is true iff missing + differs > 0; a dry run without error
\* exits with status 0 iff HasDifferences is false; a catalog of one plan that
\* targets stripe and has no remote product gives missing = 1, total = 1 and a
\* status other than 0, while a plan that does not target stripe is not counted.
C13_DifferencesAndExitStatus ==
    DryRunCompared =>
        /\ HasDifferences(diff) <=> diff.Summary.Missing + diff.Summary.Differs > 0
        /\ ExitStatus(ret.err) = 0 <=> ~HasDifferences(diff)
        /\ (/\ Len(cfg.Plans) = 1
            /\ MatchProduct(snapshot, cfg.Plans[1].ID, cfg.Plans[1].Name) = 0) =>
               IF StripeTargets = {1}
               THEN /\ diff.Summary.Missing = 1 /\ diff.Summary.Total = 1
                    /\ ExitStatus(ret.err) # 0
               ELSE /\ diff.Summary.Missing = 0 /\ diff.Summary.Total = 0
                    /\ ExitStatus(ret.err) = 0

\* the catalog's only plan has no remote product although the account has products
C13_Witness ==
    /\ DryRunCompared
    /\ Len(cfg.Plans) = 1 /\ snapshot # << >> /\ StripeTargets = {1}
    /\ MatchProduct(snapshot, cfg.Plans[1].ID, cfg.Plans[1].Name) = 0
    /\ ExitStatus(ret.err) = 1

\* a dry run whose only differences are prices that differ
C13_DiffersOnly ==
    /\ DryRunCompared
    /\ diff.Summary.Missing = 0 /\ diff.Summary.Differs > 0

\* the exit statuses of the dry runs that end with an error: a failed fetch
DryRunErrorStatuses == {ExitStatus(Error("fetch", NoString, "list"))}

\* C14: a dry run that ends because differences exist never ends with the exit
\* status of a dry run that ends because an error occurred.
C14_DistinctTermination ==
    /\ (DryRunCompared /\ HasDifferences(diff)) =>
          ExitStatus(ret.err) \notin DryRunErrorStatuses
    /\ (mode = "dry-run" /\ pc = "done" /\ ret.nilResult) =>
          /\ ret.err # NoError
          /\ ExitStatus(ret.err) \in DryRunErrorStatuses

\* Compare has produced a diff
Compared == DryRunCompared \/ (mode = "compare" /\ pc = "done")

\* C15: Compare returns one PlanDiff, in catalog order, for each plan whose own
\* provider list, or the catalog's when the plan has none, names stripe, and none
\* for another plan; total is the number of PlanDiffs and is synced + missing +
\* differs.
C15_DiffCoverageAndTotals ==
    Compared =>
        /\ Len(diff.Plans) = Cardinality(StripeTargets)
        /\ \A n \in DOMAIN diff.Plans :
              /\ diff.Plans[n].PlanID = cfg.Plans[NthTarget(n)].ID
              /\ diff.Plans[n] = comparePlan(cfg.Plans[NthTarget(n)], snapshot)
        /\ diff.Summary.Total = Len(diff.Plans)
        /\ diff.Summary.Total =
              diff.Summary.Synced + diff.Summary.Missing + diff.Summary.Differs

\* the first plan names another provider, the second has no list of its own and
\* the catalog names stripe: one PlanDiff, for the second plan
C15_Witness ==
    /\ Compared /\ Len(cfg.Plans) = 2
    /\ cfg.Plans[1].Providers = <<"paddle">> /\ cfg.Plans[2].Providers = << >>
    /\ cfg.Providers = <<"paddle", "stripe">>
    /\ Len(diff.Plans) = 1 /\ diff.Plans[1].PlanID = cfg.Plans[2].ID

\* no plan is compared when neither the plan nor the catalog names stripe
C15_NothingCompared ==
    /\ Compared /\ Len(cfg.Plans) = 2 /\ cfg.Providers = <<"paddle">>
    /\ diff.Plans = << >> /\ diff.Summary.Total = 0

---------------------------------------------------------------------------
(* Properties of the semantic pass *)

Validated == mode = "validate" /\ pc = "done"

\* the references of the document to keys the entitlements do not have
UndefinedReferences ==
    UNION {{ValidationError("plans", n - 1, "limits", key) :
               key \in margs.plans[n].limits.keys \ margs.entitlements.keys} :
           n \in DOMAIN margs.plans}
    \cup UNION {{ValidationError("addons", n - 1, "grants", key) :
                    key \in margs.addons[n].grants.keys \ margs.entitlements.keys} :
                n \in DOMAIN margs.addons}

\* C16: with entitlements that are not empty the pass returns one error for every
\* limits key of a plan and every grants key of an addon that is not an
\* entitlement, at the path of that key, and nothing else.
C16_SemanticCompleteness ==
    (Validated /\ margs.entitlements.present /\ margs.entitlements.keys # {}) =>
        /\ {ret.result[n] : n \in DOMAIN ret.result} = UndefinedReferences
        /\ Len(ret.result) = Cardinality(UndefinedReferences)

\* the example: entitlements {a}, limits {a, b}, grants {c} give two errors
C16_Witness ==
    /\ Validated /\ margs.entitlements = Mapping({"a"})
    /\ Len(margs.plans) = 1 /\ margs.plans[1].limits = Mapping({"a", "b"})
    /\ Len(margs.addons) = 1 /\ margs.addons[1].grants = Mapping({"c"})
    /\ ret.result = <<ValidationError("plans", 0, "limits", "b"),
                      ValidationError("addons", 0, "grants", "c")>>

\* two undefined keys of one plan, reported in the other order
C16_OtherOrder ==
    /\ Validated /\ margs.entitlements = Mapping({"c"})
    /\ Len(margs.plans) = 1 /\ margs.plans[1].limits = Mapping({"a", "b"})
    /\ ret.result[1] = ValidationError("plans", 0, "limits", "b")
    /\ ret.result[2] = ValidationError("plans", 0, "limits", "a")

\* C17: without entitlements, absent or empty, the pass returns no error.
C17_SemanticSkipped ==
    (Validated /\ (~margs.entitlements.present \/ margs.entitlements.keys = {})) =>
        ret.result = << >>

\* limits and grants name keys although the document has no entitlements
C17_Witness ==
    /\ Validated /\ ~margs.entitlements.present
    /\ \E n \in DOMAIN margs.plans : margs.plans[n].limits.keys = {"a", "b"}
    /\ \E n \in DOMAIN margs.addons : margs.addons[n].grants.keys # {}
    /\ ret.result = << >>

---------------------------------------------------------------------------
(* C18 *)

\* apply has called Sync and Sync has returned
SyncDone == mode = "apply" /\ pc = "done" /\ ret.err.kind # "config"

NoCallFailed == \A c \in DOMAIN calls : calls[c].out \in {"ok", "exists"}

\* the interval names syncPriceAdvanced turns into a price
KnownIntervals == {"monthly", "quarterly", "yearly", "one_time"}

AllIntervalsKnown ==
    \A n \in DOMAIN cfg.Plans : DOMAIN cfg.Plans[n].Prices \subseteq KnownIntervals

\* C18 as stated: in a Sync run where every remote call succeeds or is rejected as
\* already existing, Sync returns a nil error and apply exits with status 0.
C18_NoFailedCallNoError ==
    (SyncDone /\ NoCallFailed) => (ret.err = NoError /\ ExitStatus(ret.err) = 0)

\* C18, amended: in a Sync run where every remote call succeeds or is rejected as
\* already existing and every price interval of the catalog's plans is monthly,
\* quarterly, yearly or one_time, Sync returns a nil error, with the warnings it
\* collected, and apply exits with status 0.
C18_WarningsAreNeverErrors ==
    (SyncDone /\ NoCallFailed /\ AllIntervalsKnown) =>
        /\ ret.err = NoError /\ ~ret.nilResult
        /\ ExitStatus(ret.err) = 0
        /\ ret.result.Warnings = result.Warnings

\* a run that collects a name mismatch, a price conflict and an existing promotion
\* code, and succeeds
C18_Witness ==
    /\ SyncDone /\ NoCallFailed /\ AllIntervalsKnown
    /\ WarningsOf(ret.result, "price differs") # {}
    /\ WarningsOf(ret.result, "promotion code exists") # {}
    /\ Len(ret.result.Warnings) >= 3
    /\ ret.err = NoError /\ ExitStatus(ret.err) = 0

\* a run that finds a coupon that exists, and succeeds
C18_ExistingCoupon ==
    /\ SyncDone /\ NoCallFailed /\ AllIntervalsKnown
    /\ WarningsOf(ret.result, "coupon exists") # {}
    /\ ret.err = NoError

---------------------------------------------------------------------------
(* C19 *)

\* the calls made for the promotion at place n, as their places in the log
PromotionCalls(n) == {c \in DOMAIN calls : calls[c].kind = "promotion" /\ calls[c].idx = n}

\* the warnings that name a code
PromotionWarnings(code) ==
    {w \in DOMAIN result.Warnings :
        /\ result.Warnings[w].kind \in {"coupon exists", "promotion code exists"}
        /\ result.Warnings[w].id = code}

\* the active promotions after place n
LaterActive(n) == {m \in DOMAIN cfg.Promotions : m > n /\ IsActive(cfg.Promotions[m])}

\* the promotion after place n that Sync has to handle next
NextActive(n) == CHOOSE m \in LaterActive(n) : \A o \in LaterActive(n) : m <= o

\* C19: an inactive promotion causes no remote call; for an active promotion the
\* first call creates the coupon whose id is the code and the second, made only
\* after the coupon was created, the promotion code of that coupon; a creation that
\* is rejected as already existing leaves one warning, is the last call for that
\* promotion, is no error, and Sync goes on with the next promotion; any other
\* rejection ends Sync with the error of that promotion.
C19_PromotionHandling ==
    mode = "apply" =>
        \A n \in DOMAIN cfg.Promotions :
            LET promo == cfg.Promotions[n]
                made == PromotionCalls(n)
                first == CHOOSE c \in made : \A d \in made : c <= d
                last == CHOOSE c \in made : \A d \in made : d <= c
                exists == {c \in made : calls[c].out = "exists"}
            IN  /\ promo.Active = "false" => made = {}
                /\ Cardinality(made) <= 2
                /\ made # {} =>
                      /\ calls[first].op = "coupon.New"
                      /\ calls[first].out = "ok" => promo.Code \in remote.coupons
                      /\ Cardinality(made) = 2 =>
                            /\ calls[first].out = "ok"
                            /\ calls[last].op = "promotioncode.New"
                            /\ calls[last].out = "ok" =>
                                  promo.Code \in remote.promoCodes \cap remote.coupons
                      /\ calls[last].out = "failed" =>
                            /\ pc = "done" /\ last = Len(calls)
                            /\ ret.err.kind = "promotion" /\ ret.err.id = promo.Code
                /\ Cardinality(PromotionWarnings(promo.Code)) = Cardinality(exists)
                /\ exists # {} =>
                      /\ exists = {last}
                      /\ pc = "done" =>
                            /\ ret.err.kind = "promotion" => ret.err.id # promo.Code
                            /\ LaterActive(n) # {} => PromotionCalls(NextActive(n)) # {}
                            /\ LaterActive(n) = {} => ret.err = NoError
                /\ (pc = "done" /\ ret.err = NoError /\ promo.Active # "false") =>
                      /\ made # {}
                      /\ calls[first].out = "ok" => Cardinality(made) = 2

\* the promotion code of the first promotion exists although its coupon did not:
\* a warning, and the second promotion gets its coupon and its promotion code
C19_Witness ==
    /\ SyncDone /\ ret.err = NoError /\ Len(cfg.Promotions) = 2
    /\ \E c \in PromotionCalls(1) :
          calls[c].op = "promotioncode.New" /\ calls[c].out = "exists"
    /\ PromotionWarnings(cfg.Promotions[1].Code) # {}
    /\ Cardinality({c \in PromotionCalls(2) : calls[c].out = "ok"}) = 2

\* the coupon of the first promotion exists: no promotion code is attempted for it
C19_CouponExists ==
    /\ SyncDone /\ ret.err = NoError /\ Len(cfg.Promotions) = 2
    /\ Cardinality(PromotionCalls(1)) = 1
    /\ \E c \in PromotionCalls(1) : calls[c].out = "exists"
    /\ Cardinality({c \in PromotionCalls(2) : calls[c].out = "ok"}) = 2

\* an inactive promotion is passed over and the one after it is created
C19_InactiveSkipped ==
    /\ SyncDone /\ ret.err = NoError /\ Len(cfg.Promotions) = 2
    /\ cfg.Promotions[1].Active = "false" /\ PromotionCalls(1) = {}
    /\ Cardinality(PromotionCalls(2)) = 2

\* a rejection of another kind ends Sync after a warning was collected
C19_OtherRejection ==
    /\ SyncFailed /\ ret.err.kind = "promotion" /\ ret.err.cause = "create promotion code"
    /\ Len(ret.result.Warnings) > 0

---------------------------------------------------------------------------
(* C20 *)

\* the calls made for the addon at place n
AddonCalls(n) == {c \in DOMAIN calls : calls[c].kind = "addon" /\ calls[c].idx = n}

\* the product of the snapshot the addon at place n is matched to, or 0
AddonMatch(n) == MatchProduct(snapshot, cfg.Addons[n].ID, cfg.Addons[n].Name)

\* the matched product has an active one-time price of the addon's amount
AddonPriced(n) ==
    /\ AddonMatch(n) # 0
    /\ \E p \in DOMAIN snapshot[AddonMatch(n)].Prices :
          LET price == snapshot[AddonMatch(n)].Prices[p]
          IN  price.Active /\ price.Interval = "" /\ price.Amount = cfg.Addons[n].Price.Amount

\* Sync has handled the addon at place n without an error
AddonPast(n) ==
    \/ pc \in {"addon", "addonPrice"} /\ i > n
    \/ pc \in {"promo", "promoCode"}
    \/ pc = "done" /\ ret.err.kind \in {"nil", "promotion"}

\* the prices of the snapshot that were active when it was taken
SnapshotActive ==
    UNION {{snapshot[m].Prices[p].ID :
               p \in {q \in DOMAIN snapshot[m].Prices : snapshot[m].Prices[q].Active}} :
           m \in DOMAIN snapshot}

\* C20: no call is made for an addon whose matched product has an active one-time
\* price of the addon's amount; for any other addon a product is created only when
\* none matched, and then exactly one one-time price of the addon's amount on that
\* product; no call for an addon deactivates a price, and a catalog of addons alone
\* leaves every price active and collects no warning.
C20_AddonRule ==
    mode = "apply" =>
        /\ \A n \in DOMAIN cfg.Addons :
              LET made == AddonCalls(n)
                  products == {c \in made : calls[c].op = "product.New"}
                  prices == {c \in made : calls[c].op = "price.New"}
              IN  /\ made = products \cup prices
                  /\ made # {} => ~AddonPriced(n)
                  /\ products # {} => AddonMatch(n) = 0
                  /\ Cardinality(products) <= 1 /\ Cardinality(prices) <= 1
                  /\ \A c \in prices :
                        /\ calls[c].interval = ""
                        /\ calls[c].amount = cfg.Addons[n].Price.Amount
                        /\ \A d \in products : d < c /\ calls[d].out = "ok"
                        /\ products = {} => AddonMatch(n) # 0
                        /\ calls[c].out = "ok" =>
                              \E r \in DOMAIN remote.prices :
                                 /\ remote.prices[r].ID = calls[c].id
                                 /\ remote.prices[r].Active
                                 /\ remote.prices[r].Recurring = NoRecurring
                                 /\ remote.prices[r].UnitAmount = cfg.Addons[n].Price.Amount
                                 /\ remote.prices[r].Product =
                                       IF AddonMatch(n) # 0 THEN snapshot[AddonMatch(n)].ID
                                       ELSE calls[CHOOSE d \in products : TRUE].id
                  /\ (AddonPast(n) /\ prices = {}) => (made = {} /\ AddonPriced(n))
                  /\ AddonPast(n) => \A c \in made : calls[c].out = "ok"
        /\ (cfg.Plans = << >> /\ cfg.Promotions = << >>) =>
              /\ result.Warnings = << >>
              /\ result.PricesArchived = 0
              /\ \A r \in DOMAIN remote.prices :
                    remote.prices[r].ID \in SnapshotActive => remote.prices[r].Active

\* a matched addon whose product has only other prices gets one price and no product
C20_Witness ==
    /\ SyncDone /\ ret.err = NoError /\ cfg.Plans = << >> /\ Len(cfg.Addons) = 1
    /\ AddonMatch(1) # 0 /\ ~AddonPriced(1)
    /\ Len(snapshot[AddonMatch(1)].Prices) = 2 /\ SnapshotActive # {}
    /\ Cardinality(AddonCalls(1)) = 1
    /\ ret.result.PricesCreated = 1 /\ ret.result.AddonsCreated = 0

\* a matched addon with the price in place: nothing is called for it
C20_NoOp ==
    /\ SyncDone /\ ret.err = NoError /\ Len(cfg.Addons) = 2
    /\ AddonPriced(2) /\ AddonCalls(2) = {}
    /\ Cardinality(AddonCalls(1)) = 2

---------------------------------------------------------------------------
(* C21 *)

\* a price with an amount alone, on an interval both Sync and the fetch know
FlatOn(plan, interval) ==
    /\ interval \in {"monthly", "yearly"}
    /\ plan.Prices[interval].PerUnit = 0 /\ plan.Prices[interval].Tiers = << >>

\* every plan of the catalog targets stripe and has flat monthly or yearly prices only
FlatCatalog ==
    /\ StripeTargets = DOMAIN cfg.Plans
    /\ \A n \in DOMAIN cfg.Plans :
          \A interval \in DOMAIN cfg.Plans[n].Prices : FlatOn(cfg.Plans[n], interval)

\* a dry run that fetched, right after a Sync of the same catalog that returned nil
ComparedAfterSync ==
    /\ mode = "dry-run" /\ pc = "done" /\ ~ret.nilResult
    /\ run > 1 /\ prev.mode = "apply" /\ prev.ret.err = NoError /\ ~prev.ret.nilResult

\* C21: after a Sync that returns without error for a catalog whose plans all
\* target stripe and have only flat prices on monthly or yearly intervals, a
\* Compare of the same catalog against a freshly fetched snapshot reports every
\* plan as OK.
C21_ApplyConverges ==
    (ComparedAfterSync /\ FlatCatalog) =>
        /\ \A n \in DOMAIN diff.Plans : diff.Plans[n].Status = "OK"
        /\ Len(diff.Plans) = Len(cfg.Plans)
        /\ ~HasDifferences(diff)

---------------------------------------------------------------------------
(* C22 *)

\* what makes the configuration of an apply run unusable, written out by hand
BadEnvFlag == env # "sandbox" /\ env # "production"

BadProviders == cfg.Providers = << >> \/ \E n \in DOMAIN cfg.Providers : cfg.Providers[n] # "stripe"

CredentialOf == IF env = "sandbox" THEN margs.sandboxKey ELSE margs.productionKey

CredentialUnset == CredentialOf = NoString

CredentialMismatch ==
    \/ env = "sandbox" /\ CredentialOf # S_sk_test_1
    \/ env = "production" /\ CredentialOf # S_sk_live_1

ApplyCommand == mode \in {"apply", "dry-run"} /\ HasCommand

\* C22: apply fails and makes no remote call when --env is neither sandbox nor
\* production, when the provider list is empty or names a provider other than
\* stripe, when the credential variable of the environment is unset, or when the
\* credential's prefix does not match the environment.
C22_ConfigErrorsStopApply ==
    (ApplyCommand /\ (BadEnvFlag \/ BadProviders \/ CredentialUnset \/ CredentialMismatch)) =>
        /\ calls = << >> /\ remote = EmptyAccount
        /\ pc \in {"check", "key", "done"}
        /\ pc = "done" =>
              /\ ret.err.kind = "config" /\ ret.nilResult
              /\ ExitStatus(ret.err) # 0

\* a sandbox run with the live key ends at the client's construction
C22_Witness ==
    /\ ApplyCommand /\ mode = "apply" /\ pc = "done" /\ env = "sandbox"
    /\ ~BadProviders /\ margs.sandboxKey = S_sk_live_1
    /\ ret.err.cause = "sandbox requires a test key" /\ calls = << >>

\* the other configuration errors
C22_BadEnv == ApplyCommand /\ pc = "done" /\ ret.err.cause = "invalid environment"

C22_NoProviders == ApplyCommand /\ pc = "done" /\ ret.err.cause = "no providers specified"

C22_OtherProvider ==
    /\ ApplyCommand /\ pc = "done" /\ cfg.Providers = <<"stripe", "acme">>
    /\ ret.err.cause = "unknown provider"

C22_Unset == ApplyCommand /\ pc = "done" /\ ret.err.cause = "variable is not set"

\* a usable configuration reaches the account
C22_Proceeds ==
    /\ ApplyCommand /\ mode = "apply" /\ pc = "done" /\ env = "production"
    /\ ret.err = NoError /\ Len(remote.products) = 1

---------------------------------------------------------------------------
(* C23 *)

\* the catalog file names an entitlement it does not define
FailsValidation ==
    /\ margs.doc.entitlements.present /\ margs.doc.entitlements.keys # {}
    /\ \E n \in DOMAIN margs.doc.plans :
          margs.doc.plans[n].limits.keys \ margs.doc.entitlements.keys # {}

\* C23: apply, in dry-run and in mutating mode, validates the catalog before its
\* first remote call, so a catalog that fails validation (a plan limit naming an
\* undefined entitlement) never leads to a remote mutation.
C23_ValidationPrecedesReconciliation ==
    (ApplyCommand /\ FailsValidation) => CallsOf(Mutations) = {}

---------------------------------------------------------------------------
(* C24 *)

TruncateCommand == mode = "truncate" /\ HasCommand

\* the command has ended where it stood, without a lookup and without a call
EndedUntouched ==
    /\ pc \in {"confirm", "done"}
    /\ pc = "done" => (ret.nilResult /\ ret.err = NoError /\ ExitStatus(ret.err) = 0)
    /\ calls = << >>
    /\ remote = CommandAccount

\* the lines whose first word is y or yes in some letter case
YesLines == {S_y, S_yes, S_Y, S_Yes, S_y_no, S_sp_yes}

C24_NoAnswer ==
    /\ TruncateCommand /\ ~margs.confirm /\ margs.answer = NoString
    /\ margs.sandboxKey = S_sk_test_1 /\ pc = "done" /\ EndedUntouched

\* the answer yes, and --confirm without an answer: the account is truncated
C24_Answered ==
    /\ TruncateCommand /\ ~margs.confirm /\ margs.answer = S_yes
    /\ pc = "done" /\ ~ret.nilResult /\ AccountIsEmpty(remote)

C24_Confirmed ==
    /\ TruncateCommand /\ margs.confirm /\ margs.answer = S_n
    /\ pc = "done" /\ ~ret.nilResult /\ AccountIsEmpty(remote)

---------------------------------------------------------------------------
(* C25 *)

\* the remote operations a Sync run may make
SyncOperations == {"product.List", "price.List", "product.New", "price.New",
                   "price.Update", "coupon.New", "promotioncode.New"}

\* the warnings of a result about the display name of a plan's product
NameWarnings(res, id) ==
    {w \in WarningsOf(res, "name differs") : res.Warnings[w].id = id}

\* the matched product of the plan has another display name
NameDiffers(plan, m) == m # 0 /\ snapshot[m].Name # plan.Name

\* every product of the snapshot is in the account as it was listed, and every
\* price of the snapshot is still in the account with its amount
SnapshotKept ==
    /\ \A m \in DOMAIN snapshot :
          \E q \in DOMAIN remote.products :
             remote.products[q] = RemoteProduct(snapshot[m].ID, snapshot[m].Name,
                                                snapshot[m].PlanCode, TRUE)
    /\ \A p \in SnapshotPrices :
          \E q \in DOMAIN remote.prices :
             /\ remote.prices[q].ID = p.ID
             /\ remote.prices[q].UnitAmount = p.Amount
             /\ IntervalLabel(remote.prices[q]) = p.Interval

\* C25: Sync is not destructive. For a plan whose matched product has another
\* display name the result holds exactly one name warning with the plan's id, and
\* none for a plan whose product has the same name or is created; the only remote
\* writes of a run are create product, create price, deactivate price, create
\* coupon and create promotion code, so that every product of the snapshot keeps
\* its name and stays active and no price is deleted.
C25_NonDestructiveSync ==
    (mode = "apply" /\ pc \in SyncPositions \cup {"done"}) =>
        /\ \A c \in DOMAIN calls : calls[c].op \in SyncOperations
        /\ \A c \in CallsOf({"price.Update"}) :
              \E p \in SnapshotPrices : p.ID = calls[c].id /\ p.Active
        /\ pc \in SyncPositions => SnapshotKept
        /\ pc \in {"price", "archive", "create"} =>
              Cardinality(NameWarnings(result, cfg.Plans[i].ID)) =
                 IF NameDiffers(cfg.Plans[i], matched) THEN 1 ELSE 0
        /\ SyncDone /\ ~ret.nilResult =>
              /\ SnapshotKept
              /\ \A n \in VisitedPlans :
                    Cardinality(NameWarnings(ret.result, cfg.Plans[n].ID)) =
                       IF n \in RenamedPlans THEN 1 ELSE 0

\* a successful run on an account whose product, matched by its plan_code, has
\* another display name: one warning, the product keeps its name, and the run
\* archives a price and creates one
C25_Witness ==
    /\ SyncDone /\ ret.err = NoError
    /\ RenamedPlans # {}
    /\ \A n \in RenamedPlans : Cardinality(NameWarnings(ret.result, cfg.Plans[n].ID)) = 1
    /\ OkCalls({"price.Update"}) # {} /\ OkCalls({"price.New"}) # {}
    /\ SnapshotKept

---------------------------------------------------------------------------
(* C26 *)

\* the catalog has no addons and no promotions, and its plans have flat monthly
\* or yearly prices only
FlatPlansOnly ==
    /\ Len(cfg.Addons) = 0 /\ Len(cfg.Promotions) = 0
    /\ \A n \in DOMAIN cfg.Plans :
          \A interval \in DOMAIN cfg.Plans[n].Prices : FlatOn(cfg.Plans[n], interval)

\* the products the first run created: product.New puts them in front of the others
FirstCreated == 1..prev.ret.result.ProductsCreated

\* the active products the first run listed: Sync changes no product it lists
FirstSnapshot ==
    FetchProducts([products |->
        SubSeq(prev.remote.products, prev.ret.result.ProductsCreated + 1,
               Len(prev.remote.products))])

\* the product the first run used for the plan n: the matched one, else the
\* one it created for the plan
FirstResolved(n) ==
    LET plan == cfg.Plans[n]
        m == MatchProduct(FirstSnapshot, plan.ID, plan.Name)
    IN  IF m # 0 THEN {FirstSnapshot[m].ID}
        ELSE {prev.remote.products[q].ID : q \in
                 {o \in FirstCreated :
                     /\ prev.remote.products[o].PlanCode = plan.ID
                     /\ prev.remote.products[o].Name = plan.Name}}

\* the product this run matches for the plan n
SecondResolved(n) ==
    LET plan == cfg.Plans[n]
        m == MatchProduct(snapshot, plan.ID, plan.Name)
    IN  IF m # 0 THEN {snapshot[m].ID} ELSE {}

\* in both runs distinct plans resolve to distinct products, and each plan resolves
\* in this run to the product of the first run
StableMatching ==
    /\ \A n \in DOMAIN cfg.Plans :
          SecondResolved(n) # {} /\ SecondResolved(n) = FirstResolved(n)
    /\ \A n, o \in DOMAIN cfg.Plans :
          n # o => /\ SecondResolved(n) \cap SecondResolved(o) = {}
                   /\ FirstResolved(n) \cap FirstResolved(o) = {}

\* this run has fetched its snapshot
Fetched == pc \in SyncPositions \/ (pc = "done" /\ ~ret.nilResult)

\* C26: for a catalog without addons and promotions whose plans have only flat
\* monthly or yearly prices, a second Sync that follows a successful first Sync on
\* the unchanged account, and in which every plan matches the product the first run
\* matched or created for it, distinct plans matching distinct products, attempts
\* no remote mutation, and returns without error with all counts zero.
C26_FlatIdempotence ==
    (SecondApply /\ ~prev.ret.nilResult /\ FlatPlansOnly /\ Fetched /\ StableMatching) =>
        /\ CallsOf(Mutations) = {}
        /\ pc = "done" =>
              /\ ret.err = NoError
              /\ ret.result.ProductsCreated = 0 /\ ret.result.PricesCreated = 0
              /\ ret.result.PricesArchived = 0 /\ ret.result.AddonsCreated = 0
              /\ ret.result.CouponsCreated = 0 /\ ret.result.PromosCreated = 0

\* a second run of two plans after a first run that created both products and
\* their prices
C26_Witness ==
    /\ SecondApply /\ FlatPlansOnly /\ Fetched /\ StableMatching
    /\ Len(cfg.Plans) = 2
    /\ prev.ret.result.ProductsCreated = 2 /\ prev.ret.result.PricesCreated = 2
    /\ pc = "done" /\ ret.err = NoError /\ CallsOf(Mutations) = {}

\* a second run after a first run that archived a conflicting price
C26_AfterConflict ==
    /\ SecondApply /\ FlatPlansOnly /\ Fetched /\ StableMatching
    /\ prev.ret.result.PricesArchived = 1 /\ prev.ret.result.PricesCreated = 1
    /\ pc = "done" /\ ret.err = NoError /\ CallsOf(Mutations) = {}

---------------------------------------------------------------------------
(* C27 *)

\* the entity of the catalog a call was made for
EntityOf(c) ==
    IF calls[c].kind = "plan" THEN cfg.Plans[calls[c].idx] ELSE cfg.Addons[calls[c].idx]

\* the local price a call was made for
LocalOf(c) == EntityOf(c).Prices[calls[c].interval]

\* the product of the snapshot the entity of the call is matched to, or 0
SnapshotMatch(c) == MatchProduct(snapshot, EntityOf(c).ID, EntityOf(c).Name)

\* the list calls come first: one product list, then one price list for each
\* product of the snapshot
ListedOnce ==
    /\ CallsOf({"product.List"}) = {1}
    /\ CallsOf({"price.List"}) = {c + 1 : c \in DOMAIN snapshot}
    /\ \A m \in DOMAIN snapshot : calls[m + 1].id = snapshot[m].ID

\* the snapshot holds nothing this run has made and shows as active every price this
\* run has archived
SnapshotIsOld ==
    /\ \A c \in OkCalls({"product.New"}) :
          \A m \in DOMAIN snapshot : snapshot[m].ID # calls[c].id
    /\ \A c \in OkCalls({"price.New"}) :
          \A p \in SnapshotPrices : p.ID # calls[c].id
    /\ \A c \in OkCalls({"price.Update"}) :
          /\ calls[c].id \in SnapshotActive
          /\ \E q \in DOMAIN remote.prices :
                remote.prices[q].ID = calls[c].id /\ ~remote.prices[q].Active

\* what was decided for an entity is what the snapshot says: a product is created
\* when the snapshot has no match, a price archived is an active price of the
\* snapshot's match on the interval with another amount, and a flat price is
\* created when the snapshot's match has no active price of its amount on the
\* interval
DecidedOnSnapshot ==
    /\ \A c \in CallsOf({"product.New"}) : SnapshotMatch(c) = 0
    /\ \A c \in CallsOf({"price.Update"}) :
          LET m == SnapshotMatch(c)
              amount == LocalOf(c).Amount
          IN  /\ m # 0
              /\ \E o \in ActiveOn(snapshot[m].Prices, calls[c].interval) :
                    /\ snapshot[m].Prices[o].ID = calls[c].id
                    /\ snapshot[m].Prices[o].Amount # amount
    /\ \A c \in CallsOf({"price.New"}) :
          (calls[c].kind = "plan" /\ PriceType(LocalOf(c)) = "flat") =>
              LET m == SnapshotMatch(c)
                  amount == LocalOf(c).Amount
              IN  m # 0 =>
                     \A o \in ActiveOn(snapshot[m].Prices, calls[c].interval) :
                        snapshot[m].Prices[o].Amount # amount
    /\ \A n \in DOMAIN cfg.Plans :
          (PlanSynced(n) /\ EntityCalls({"product.New"}, "plan", n) = {}) =>
              MatchProduct(snapshot, cfg.Plans[n].ID, cfg.Plans[n].Name) # 0

\* C27: a Sync that has fetched has listed the products once and the prices of each
\* listed product once, before every other call; when the run returns, its snapshot
\* is still the listing of the account as the run found it and holds nothing the
\* run has created or archived, and every create and archive call in its log is
\* the decision the catalog and that snapshot give, whatever the account held by
\* then.
C27_SingleSnapshot ==
    (mode = "apply" /\ Fetched) =>
        /\ ListedOnce
        /\ pc = "done" =>
              /\ run > 1 => snapshot = FetchProductsWithPrices(prev.remote)
              /\ SnapshotIsOld
              /\ DecidedOnSnapshot

\* the second plan resolves to the product of the first, whose price the first has
\* archived and replaced: the second plan archives the same price again and
\* creates a second price of the amount that is active in the account by then
C27_Witness ==
    /\ mode = "apply" /\ pc = "done" /\ ret.err = NoError
    /\ \E c, d \in OkCalls({"price.Update"}) :
          c # d /\ calls[c].id = calls[d].id /\ calls[c].idx # calls[d].idx
    /\ \E c, d \in OkCalls({"price.New"}) :
          c # d /\ calls[c].amount = calls[d].amount /\ calls[c].interval = calls[d].interval
    /\ SnapshotIsOld /\ DecidedOnSnapshot

\* a second run that archives and creates: its snapshot is the listing of the
\* account the first run left, not of the account as it is
C27_StaleInSecondRun ==
    /\ mode = "apply" /\ run > 1 /\ pc = "done" /\ ret.err = NoError
    /\ OkCalls({"price.Update"}) # {} /\ OkCalls({"price.New"}) # {}
    /\ snapshot = FetchProductsWithPrices(prev.remote)
    /\ snapshot # FetchProductsWithPrices(remote)

---------------------------------------------------------------------------
(* C28 *)

\* the local price has no tiers and a per_unit above zero, or at least one tier
PerUnitOrTiered(p) == (Len(p.Tiers) = 0 /\ p.PerUnit > 0) \/ Len(p.Tiers) > 0

\* Sync has handled the price of plan n on the interval without an error
PriceSynced(n, interval) ==
    \/ PlanSynced(n)
    \/ mode = "apply" /\ pc = "price" /\ i = n /\ interval \notin todo

\* the calls of the given kind made for the price of plan n on the interval
PriceCalls(op, n, interval) ==
    {c \in EntityCalls({op}, "plan", n) : calls[c].interval = interval}

\* the conflict warnings of the result for the price of the plan on the interval
PriceWarnings(res, id, interval) ==
    {w \in WarningsOf(res, "price differs") :
        res.Warnings[w].id = id /\ res.Warnings[w].interval = interval}

\* C28: for a local price that is per_unit or tiered Sync never issues a deactivation
\* and never appends a conflict warning, and a run that gets past that price has
\* issued exactly one create-price call for it, which the account accepted, whatever
\* prices the snapshot holds for the interval, in the first run and in the next.
C28_AlwaysCreated ==
    mode = "apply" =>
        \A n \in DOMAIN cfg.Plans : \A interval \in DOMAIN cfg.Plans[n].Prices :
            PerUnitOrTiered(cfg.Plans[n].Prices[interval]) =>
                /\ PriceCalls("price.Update", n, interval) = {}
                /\ PriceWarnings(result, cfg.Plans[n].ID, interval) = {}
                /\ pc = "done" /\ ~ret.nilResult =>
                      PriceWarnings(ret.result, cfg.Plans[n].ID, interval) = {}
                /\ Cardinality(PriceCalls("price.New", n, interval)) <= 1
                /\ PriceSynced(n, interval) =>
                      /\ Cardinality(PriceCalls("price.New", n, interval)) = 1
                      /\ \A c \in PriceCalls("price.New", n, interval) :
                            /\ calls[c].out = "ok"
                            /\ \E q \in DOMAIN remote.prices :
                                  remote.prices[q].ID = calls[c].id /\ remote.prices[q].Active

\* a second run for a per_unit monthly price of 500 on a product that holds an
\* active monthly price of 500 from the start and the one the first run created:
\* one more price is created, nothing is archived, nothing is warned about
C28_Witness ==
    /\ SecondApply /\ pc = "done" /\ ret.err = NoError
    /\ Len(cfg.Plans) = 1 /\ DOMAIN cfg.Plans[1].Prices = {"monthly"}
    /\ cfg.Plans[1].Prices["monthly"] = PerUnitPrice(500)
    /\ prev.ret.result.PricesCreated = 1
    /\ Cardinality(ActiveOn(snapshot[1].Prices, "monthly")) >= 2
    /\ \A o \in ActiveOn(snapshot[1].Prices, "monthly") : snapshot[1].Prices[o].Amount = 500
    /\ Cardinality(PriceCalls("price.New", 1, "monthly")) = 1
    /\ ret.result.PricesCreated = 1 /\ ret.result.PricesArchived = 0
    /\ Len(ret.result.Warnings) = 0

\* a tiered price is created over an active price of the interval
C28_Tiered ==
    /\ mode = "apply" /\ pc = "done" /\ ret.err = NoError
    /\ Len(cfg.Plans) = 1 /\ DOMAIN cfg.Plans[1].Prices = {"monthly"}
    /\ Len(cfg.Plans[1].Prices["monthly"].Tiers) = 2
    /\ Len(snapshot) = 1 /\ ActiveOn(snapshot[1].Prices, "monthly") # {}
    /\ ret.result.PricesCreated = 1 /\ ret.result.PricesArchived = 0
    /\ Len(ret.result.Warnings) = 0

---------------------------------------------------------------------------
(* C29 *)

\* the accepted create-price calls of tiered local prices
TieredCreates ==
    {c \in OkCalls({"price.New"}) :
        calls[c].kind = "plan" /\ Len(EntityOf(c).Prices[calls[c].interval].Tiers) > 0}

\* the price the account holds for a call
CreatedBy(c) ==
    remote.prices[CHOOSE q \in DOMAIN remote.prices : remote.prices[q].ID = calls[c].id]

\* the created price has the tiers of the local price, one for one
TiersInOrder(c) == DOMAIN CreatedBy(c).Tiers = DOMAIN LocalOf(c).Tiers

\* the tier n is open-ended for up_to "unlimited", and keeps its number otherwise
BoundKept(c, n) ==
    LET upTo == LocalOf(c).Tiers[n].UpTo
        param == CreatedBy(c).Tiers[n]
    IN  /\ (upTo.type = "string" /\ upTo.text = "unlimited") =>
              param.UpToInf /\ param.UpTo = Unset
        /\ upTo.type \in {"int", "float64"} =>
              /\ ~param.UpToInf
              /\ param.UpTo # Unset
              /\ \A j \in DOMAIN param.UpTo : param.UpTo[j] * upTo.den = upTo.num

\* the tier n carries its flat amount alone when it has one, else its unit amount
\* alone
AmountCarried(c, n) ==
    LET tier == LocalOf(c).Tiers[n]
        param == CreatedBy(c).Tiers[n]
    IN  IF tier.Flat > 0
        THEN param.FlatAmount = Int64(tier.Flat) /\ param.UnitAmount = Unset
        ELSE param.UnitAmount = Int64(tier.Amount) /\ param.FlatAmount = Unset

ModeKept(c) == CreatedBy(c).TiersMode = LocalOf(c).Mode

\* C29: the price created for a tiered local price with n tiers has n tiers in the
\* same order; a tier whose up_to is "unlimited" is open-ended and a tier whose
\* up_to is a number has that number as its upper bound; a tier with flat > 0
\* carries a flat amount only, any other tier a unit amount only; the tier mode of
\* the created price is the mode of the local price.
C29_TierTranslation ==
    mode = "apply" =>
        \A c \in TieredCreates :
            /\ TiersInOrder(c)
            /\ \A n \in DOMAIN LocalOf(c).Tiers : BoundKept(c, n) /\ AmountCarried(c, n)
            /\ ModeKept(c)

---------------------------------------------------------------------------
(* C30 *)

\* the accepted create-price calls made for plans
PlanPriceCreates == {c \in OkCalls({"price.New"}) : calls[c].kind = "plan"}

\* the cadence the claim gives an interval label
CadenceOf(interval) ==
    IF interval = "monthly" THEN <<[Interval |-> "month", IntervalCount |-> 1]>>
    ELSE IF interval = "quarterly" THEN <<[Interval |-> "month", IntervalCount |-> 3]>>
    ELSE IF interval = "yearly" THEN <<[Interval |-> "year", IntervalCount |-> 1]>>
    ELSE << >>

\* every created price has the cadence of its label
CadenceMapped ==
    \A c \in PlanPriceCreates :
        /\ calls[c].interval \in {"monthly", "quarterly", "yearly", "one_time", ""}
        /\ CreatedBy(c).Recurring = CadenceOf(calls[c].interval)

\* a plan's trial is on every recurring price created for it and on no other
TrialAttached ==
    \A c \in PlanPriceCreates :
        CreatedBy(c).TrialDays =
            IF CreatedBy(c).Recurring # << >> /\ EntityOf(c).TrialDays > 0
            THEN EntityOf(c).TrialDays ELSE 0

\* the prices of the catalog on a label that has no cadence and is not one-time
OtherLabels ==
    {e \in (DOMAIN cfg.Plans) \X (ShapeIntervals \cup Intervals) :
        /\ e[2] \in DOMAIN cfg.Plans[e[1]].Prices
        /\ e[2] \notin {"monthly", "quarterly", "yearly", "one_time", ""}}

\* the snapshot's match of the plan has an active price of the flat local amount
\* on the label: Sync returns from the price before it builds any params
FoundExact(n, interval) ==
    LET plan == cfg.Plans[n]
        m == MatchProduct(snapshot, plan.ID, plan.Name)
    IN  /\ Len(plan.Prices[interval].Tiers) = 0 /\ plan.Prices[interval].PerUnit <= 0
        /\ m # 0
        /\ \E o \in ActiveOn(snapshot[m].Prices, interval) :
              snapshot[m].Prices[o].Amount = plan.Prices[interval].Amount

C30_OneTime ==
    /\ mode = "apply" /\ pc = "done" /\ ret.err = NoError
    /\ \E c \in PlanPriceCreates :
          /\ calls[c].interval \in {"one_time", ""}
          /\ EntityOf(c).TrialDays = 14
          /\ CreatedBy(c).Recurring = << >> /\ CreatedBy(c).TrialDays = 0

\* a per_unit price on the label week: the run fails and creates nothing
C30_OtherLabel ==
    /\ mode = "apply" /\ pc = "done" /\ NoCallFailed
    /\ OtherLabels # {} /\ \A e \in OtherLabels : ~FoundExact(e[1], e[2])
    /\ ret.err.cause = "unsupported interval"
    /\ CallsOf({"price.New"}) = {}

\* a flat price on the label week whose amount the snapshot holds: no error
C30_ExactOtherLabel ==
    /\ mode = "apply" /\ pc = "done" /\ ret.err = NoError /\ ~ret.nilResult
    /\ \E e \in OtherLabels : FoundExact(e[1], e[2]) /\ PriceSynced(e[1], e[2])

---------------------------------------------------------------------------
(* C31 *)

\* the number of calls of the given operations the account accepted
Succeeded(ops) == Cardinality(OkCalls(ops))

\* the counts of the result are the numbers of the accepted calls, and nothing else
\* is counted
Accounted(res) ==
    /\ res.ProductsCreated + res.AddonsCreated = Succeeded({"product.New"})
    /\ res.ProductsCreated = OkOf("product.New", "plan")
    /\ res.AddonsCreated = OkOf("product.New", "addon")
    /\ res.PricesCreated = Succeeded({"price.New"})
    /\ res.PricesArchived = Succeeded({"price.Update"})
    /\ res.CouponsCreated = Succeeded({"coupon.New"})
    /\ res.PromosCreated = Succeeded({"promotioncode.New"})

\* C31: while Sync runs, and when it returns a result, with or without an error,
\* ProductsCreated + AddonsCreated is the number of accepted product creations,
\* PricesCreated of accepted price creations, PricesArchived of accepted price
\* deactivations, CouponsCreated and PromosCreated of accepted coupon and
\* promotion-code creations; a call that failed or was rejected is not counted.
C31_CounterAccounting ==
    mode = "apply" =>
        /\ pc \in SyncPositions => Accounted(result)
        /\ (pc = "done" /\ ~ret.nilResult /\ ret.err.kind # "config") => Accounted(ret.result)

\* a run that fails on an addon price after it created a product and a price for a
\* plan and the product of the addon: the failed call is in the log, not in the counts
C31_Witness ==
    /\ mode = "apply" /\ pc = "done" /\ ~ret.nilResult
    /\ ret.err.kind = "addon"
    /\ \E c \in CallsOf({"price.New"}) : calls[c].out = "failed" /\ calls[c].kind = "addon"
    /\ ret.result.ProductsCreated = 1 /\ ret.result.AddonsCreated = 1
    /\ ret.result.PricesCreated = 1
    /\ Cardinality(CallsOf({"price.New"})) = 2
    /\ Accounted(ret.result)

\* a run that creates a price and is told that a coupon exists
C31_Rejected ==
    /\ mode = "apply" /\ pc = "done" /\ ret.err = NoError
    /\ ret.result.PricesCreated >= 1
    /\ RejectedCalls("coupon.New") # {} /\ ret.result.CouponsCreated = 0
    /\ Accounted(ret.result)

---------------------------------------------------------------------------
(* C32 *)

\* C32: every remote call Sync makes for a plan is made for a plan whose effective
\* provider list (its own when it has entries, else the catalog's) names stripe; a
\* plan that Compare skips causes no remote call.
C32_SyncCoversStripePlansOnly ==
    mode = "apply" =>
        \A c \in DOMAIN calls : calls[c].kind = "plan" => calls[c].idx \in StripeTargets

---------------------------------------------------------------------------
(* C33 *)

\* the plan ids of the catalog are pairwise distinct
DistinctPlanIDs ==
    \A n, o \in DOMAIN cfg.Plans : cfg.Plans[n].ID = cfg.Plans[o].ID => n = o

\* C33: for a catalog with pairwise distinct plan ids MatchProduct resolves no two
\* plans to the same product of the snapshot, so that no price is archived or
\* created for a plan on a product that another plan is matched to.
C33_MatchingIsInjective ==
    (mode = "apply" /\ Fetched /\ DistinctPlanIDs) =>
        \A n, o \in DOMAIN cfg.Plans :
            n # o => SecondResolved(n) \cap SecondResolved(o) = {}

---------------------------------------------------------------------------
(* C34 *)

\* C34: the product MatchProduct returns carries no plan_code or the plan_code that
\* is the local id: the name fallback never returns a product tagged for another id.
C34_TaggedProductBelongsToItsCode ==
    (MatchDone /\ matched # 0) =>
        margs.products[matched].PlanCode \in {NoString, margs.planID}

---------------------------------------------------------------------------
(* C35 *)

\* the run before this one was a Sync that ended in the error of promotioncode.New,
\* which is called only after coupon.New succeeded, and left the code missing
CodeWasLeftOut ==
    /\ run > 1 /\ prev.mode = "apply"
    /\ prev.ret.err.kind = "promotion"
    /\ prev.ret.err.cause = "create promotion code"
    /\ prev.ret.err.id \in prev.remote.coupons
    /\ prev.ret.err.id \notin prev.remote.promoCodes

\* C35: when a Sync run created the coupon of an active promotion and failed to
\* create its promotion code, a later Sync run of the same catalog that runs to its
\* end, no remote call of it failing other than as already existing, creates the
\* missing promotion code.
C35_PromotionRecovery ==
    (SyncDone /\ CodeWasLeftOut /\ NoCallFailed /\ ret.err = NoError) =>
        prev.ret.err.id \in remote.promoCodes

---------------------------------------------------------------------------
(* C36 *)

\* C36: a plan price that Sync created under one of the labels monthly, quarterly,
\* yearly, one_time is given that same label by the fetch, so that the matching of
\* Sync and the lookup of Compare, which compare labels for equality, find it for
\* the local interval it was created for.
C36_IntervalLabelsRoundTrip ==
    mode = "apply" =>
        \A c \in PlanPriceCreates :
            calls[c].interval \in KnownIntervals =>
                IntervalLabel(CreatedBy(c)) = calls[c].interval

---------------------------------------------------------------------------
(* C37 *)

\* the run before this one was a Sync that returned without error, so that every
\* addon of the catalog had its product, matched or created, when it ended
FirstRunComplete == run > 1 /\ prev.mode = "apply" /\ prev.ret.err = NoError

\* C37: in a Sync run that follows a complete Sync run of the same catalog on the
\* unchanged account, MatchProduct resolves every addon to a product of the
\* snapshot, and no product is created for an addon.
C37_AddonsFoundAgain ==
    (mode = "apply" /\ Fetched /\ FirstRunComplete) =>
        /\ \A n \in DOMAIN cfg.Addons :
              MatchProduct(snapshot, cfg.Addons[n].ID, cfg.Addons[n].Name) # 0
        /\ \A c \in DOMAIN calls :
              calls[c].kind = "addon" => calls[c].op # "product.New"

---------------------------------------------------------------------------
(* C38 *)

\* no addons, no promotions, every plan for stripe, flat prices only
FlatStripeCatalog ==
    /\ Len(cfg.Addons) = 0 /\ Len(cfg.Promotions) = 0
    /\ StripeTargets = DOMAIN cfg.Plans
    /\ \A n \in DOMAIN cfg.Plans :
          \A interval \in DOMAIN cfg.Plans[n].Prices :
              PriceType(cfg.Plans[n].Prices[interval]) = "flat"

\* C38: for a catalog without addons and promotions whose plans all target stripe
\* and have flat prices only, Compare of the catalog and the snapshot reports no
\* differences exactly when Sync on that catalog and snapshot attempts no mutation:
\* a Sync that attempts one started from a snapshot with differences, and a Sync
\* that returned without error and without a mutation started from a snapshot
\* without differences.
C38_DryRunPredictsApply ==
    (mode = "apply" /\ Fetched /\ FlatStripeCatalog) =>
        /\ CallsOf(Mutations) # {} => HasDifferences(Compare(cfg, snapshot))
        /\ (pc = "done" /\ ret.err = NoError /\ CallsOf(Mutations) = {}) =>
              ~HasDifferences(Compare(cfg, snapshot))

---------------------------------------------------------------------------
(* C39 *)

\* the calls that deactivate or create a price for a plan
PlanPriceMutations ==
    {c \in CallsOf({"price.Update", "price.New"}) : calls[c].kind = "plan"}

\* C39: Sync attempts no deactivation and no creation of a price for a plan price
\* whose interval label is other than monthly, quarterly, yearly, one_time or empty,
\* whatever the snapshot holds under that label.
C39_UnsupportedIntervalTouchesNothing ==
    mode = "apply" =>
        \A c \in PlanPriceMutations : calls[c].interval \in SupportedIntervals

---------------------------------------------------------------------------
(* C40 *)

\* the catalog Import returned, as the config Compare is given: Import sets the id,
\* the name and the prices of a plan and leaves its other fields zero
ImportedCatalog ==
    [Providers |-> ret.result.Providers,
     Plans |-> [n \in DOMAIN ret.result.Plans |->
                   Plan(ret.result.Plans[n].ID, ret.result.Plans[n].Name,
                        ret.result.Plans[n].Prices)]]

\* the products of the snapshot that are active and have an active price
PricedProducts ==
    {n \in DOMAIN snapshot :
        /\ snapshot[n].Active
        /\ \E q \in DOMAIN snapshot[n].Prices : snapshot[n].Prices[q].Active}

ImportDone == mode = "import" /\ pc = "done" /\ ret.err = NoError

\* C40: the catalog Import returns has one plan for each active product of the
\* snapshot that has an active price, its id the plan_code of the product or else
\* its normalized name, and Compare of that catalog and the same snapshot reports
\* every plan as OK, none as MISSING and none as DIFFERS.
C40_ImportRoundTrip ==
    ImportDone =>
        LET d == Compare(ImportedCatalog, snapshot)
        IN  /\ Len(ImportedCatalog.Plans) = Cardinality(PricedProducts)
            /\ \A n \in PricedProducts :
                  \E m \in DOMAIN ImportedCatalog.Plans :
                      ImportedCatalog.Plans[m].ID = planIDFromProduct(snapshot[n])
            /\ d.Summary.Total = Len(ImportedCatalog.Plans)
            /\ d.Summary.Synced = d.Summary.Total
            /\ d.Summary.Missing = 0 /\ d.Summary.Differs = 0

====
